---- MODULE Spec2Model ----
(***************************************************************************)
(* Model of the storybound-proxy request handlers: the image fallback      *)
(* chains (Grok -> OpenAI -> Gemini, each through withRetry), the chat      *)
(* fallback chains (xAI -> Gemini -> OpenAI, and the two-step xAI ->        *)
(* Gemini) and the plain xAI pass-through proxy.  One request is followed   *)
(* from its arrival to its response; the upstream providers are the         *)
(* environment.                                                             *)
(*                                                                          *)
(* Strings built by template literals are sequences of string tokens;      *)
(* concatenation is \o.  A JavaScript value that may be absent is the       *)
(* token U ("undefined").                                                   *)
(***************************************************************************)
EXTENDS Integers, Sequences, FiniteSets, TLC

VARIABLES
  route,     \* which handler serves the request
  req,       \* the inbound request: method and the fields of req.body
  env,       \* process.env: the credentials set, limits, model names
  policy,    \* the options withRetry is called with, per provider
  goodAt,    \* environment: the attempt at which each provider's upstream first answers well
  pc,        \* where the handler is: start, attempt, await, sleep, done
  k,         \* position in the chain of the provider being tried
  i,         \* withRetry's loop variable
  inflight,  \* the upstream call awaited, if any
  resp,      \* the answer behind the success sent, if any
  lastErr,   \* withRetry's lastErr
  errs,      \* the catch variables (grokErr, openaiErr, ...)
  res,       \* the response sent: status and body
  sent,      \* how many responses were sent
  hdr,       \* the x-storybound-provider response header
  invoked,   \* how often each provider's attempt function was invoked
  ncalls,    \* how many upstream calls were made to each provider
  slept,     \* the delays slept while retrying each provider, in order
  thrown,    \* the error each provider's latest failed attempt threw
  safeBody,  \* the chat handler's safeBody = sanitizeChatBody(req.body)
  payload,   \* the payload of the latest upstream call made to each provider
  got,       \* the status and the parts of Gemini's latest answer, if any
  open,      \* how many upstream calls were started and have not ended yet
  other      \* a second request handled by the same handler at the same time

vars == <<route, req, env, policy, goodAt, pc, k, i, inflight, resp,
          lastErr, errs, res, sent, hdr, invoked, ncalls, slept, thrown,
          safeBody, payload, got, open, other>>

(* ------------------------------------------------------------------ *)
(* Bounds of the model                                                 *)
(* ------------------------------------------------------------------ *)

\* Largest attempt budget tried in the retry harness (SpecRetry).
MaxTries == 3

\* Most messages in a request of the sanitizer harness (SpecSanitize).
MaxMsgs == 3

\* Longest message content, in characters, in the sanitizer harness.
MaxContentLen == 4

(* ------------------------------------------------------------------ *)
(* JavaScript values                                                   *)
(* ------------------------------------------------------------------ *)

U == "undefined"

\* The characters of a provider's text the Gemini image step quotes in its
\* error: textPart.text.slice(0, 200).
ErrorTextLimit == 200

\* withRetry's attempts when the caller names none (tries = 2).
DefaultAttempts == 2

\* JavaScript truthiness of a string-or-undefined value.
Truthy(x) == x # U /\ x # ""

\* a || b for strings
OrElse(a, b) == IF Truthy(a) THEN a ELSE b

\* One element of candidates[0].content.parts of a Gemini response.  text is
\* the sequence of its characters; <<>> is an absent or empty text.
NoPart == [text |-> <<>>, inlineData |-> U, mimeType |-> U]

\* The body (resp.data) of an upstream answer.  type is typeof data.
NoData ==
  [type |-> "undefined", str |-> U, errorType |-> "undefined", error |-> U,
   message |-> U, url |-> U, b64_json |-> U, b64 |-> U, image |-> U,
   promptUsed |-> U, parts |-> <<>>, content |-> U, id |-> U,
   finish_reason |-> U]

EmptyObj == [NoData EXCEPT !.type = "object"]

DataUrl == [EmptyObj EXCEPT !.url = "https://img/1.png"]
DataB64 == [EmptyObj EXCEPT !.b64_json = "QUJD"]
DataBoth == [EmptyObj EXCEPT !.url = "https://img/1.png", !.b64_json = "QUJD"]
DataImage == [EmptyObj EXCEPT !.image = "data:image/png;base64,REVG"]
DataInline ==
  [EmptyObj EXCEPT !.parts = <<[NoPart EXCEPT !.inlineData = "R0hJ",
                                              !.mimeType = "image/jpeg"]>>]
DataText ==
  [EmptyObj EXCEPT !.parts = <<[NoPart EXCEPT !.text = <<"n", "o">>]>>]
\* Two text parts, "hi" and " there", around a part without text.
DataTexts ==
  [EmptyObj EXCEPT !.parts = <<[NoPart EXCEPT !.text = <<"h", "i">>], NoPart,
                               [NoPart EXCEPT !.text = <<" ", "t", "h", "e", "r", "e">>]>>]
\* A blank text part, then a text three characters longer than the error
\* detail keeps: x up to the limit, then y.
DataLongText ==
  [EmptyObj EXCEPT !.parts =
     <<[NoPart EXCEPT !.text = <<" ">>],
       [NoPart EXCEPT !.text = [j \in 1..(ErrorTextLimit + 3) |->
                                  IF j <= ErrorTextLimit THEN "x" ELSE "y"]]>>]
DataChat ==
  [EmptyObj EXCEPT !.content = "Once upon a time", !.id = "cmpl-1",
                   !.finish_reason = "length"]
DataErrObj == [EmptyObj EXCEPT !.errorType = "object", !.error = "{code:404}"]
DataErrStr == [EmptyObj EXCEPT !.errorType = "string", !.error = "rate limited"]
DataMsg == [EmptyObj EXCEPT !.message = "unavailable"]
DataStr == [NoData EXCEPT !.type = "string", !.str = "Bad Gateway"]

\* An upstream HTTP answer.  status 0 stands for "no answer".
NoResp == [status |-> 0, data |-> NoData]

Responses ==
  { [status |-> 200, data |-> DataUrl],
    [status |-> 200, data |-> DataB64],
    [status |-> 200, data |-> DataBoth],
    [status |-> 200, data |-> DataImage],
    [status |-> 201, data |-> DataInline],
    [status |-> 200, data |-> DataText],
    [status |-> 200, data |-> DataTexts],
    [status |-> 200, data |-> DataLongText],
    [status |-> 200, data |-> DataChat],
    [status |-> 204, data |-> NoData],
    [status |-> 404, data |-> DataErrObj],
    [status |-> 429, data |-> DataErrStr],
    [status |-> 500, data |-> DataStr],
    [status |-> 503, data |-> DataMsg],
    [status |-> 500, data |-> DataBoth],
    [status |-> 300, data |-> DataB64] }

\* status in [200, 300)
Is2xx(status) == status >= 200 /\ status < 300

\* JSON.stringify of a value, as tokens.
Stringify(x) == <<"JSON", ToString(x)>>

\* An Error object.  prov and att identify the attempt that created it
\* (object identity); hasResp is whether e.response is set (AxiosError of a
\* non-2xx answer).
NoErr ==
  [name |-> "none", prov |-> U, att |-> 0, message |-> <<>>,
   hasResp |-> FALSE, response |-> NoResp]

NewError(p, a, msg) ==
  [name |-> "Error", prov |-> p, att |-> a, message |-> msg,
   hasResp |-> FALSE, response |-> NoResp]

\* What axios rejects with for an answer outside validateStatus.
AxiosStatusError(p, a, r) ==
  [name |-> "AxiosError", prov |-> p, att |-> a,
   message |-> <<"Request failed with status code ", ToString(r.status)>>,
   hasResp |-> TRUE, response |-> r]

\* What axios rejects with when the timeout elapses.
AxiosTimeoutError(p, a, ms) ==
  [name |-> "AxiosError", prov |-> p, att |-> a,
   message |-> <<"timeout of ", ToString(ms), "ms exceeded">>,
   hasResp |-> FALSE, response |-> NoResp]

\* The object { response: resp } that tryGrok and tryOpenAI hand to errMsg.
ResponseOnly(r) == [NoErr EXCEPT !.name = "object", !.hasResp = TRUE, !.response = r]

\* e?.message || "Unknown error"
MessageOr(e) == IF e.message = <<>> THEN <<"Unknown error">> ELSE e.message

\* data.error as text: the string itself, or JSON.stringify of the object.
ErrorField(d) ==
  IF d.errorType = "string" THEN <<d.error>> ELSE Stringify(d.error)

\* e?.response?.data
ErrData(e) == IF e.hasResp THEN e.response.data ELSE NoData

\* errMsg of the image handlers.
errMsgImage(e) ==
  LET d == ErrData(e) IN
  IF d.type = "string" THEN <<d.str>>
  ELSE IF d.errorType # "undefined" /\ Truthy(d.error) THEN ErrorField(d)
  ELSE IF Truthy(d.message) THEN <<d.message>>
  ELSE MessageOr(e)

\* errMsg of the chat handler.
errMsgChat(e) ==
  LET d == ErrData(e) IN
  IF d.type = "undefined" \/ (d.type = "string" /\ d.str = "") THEN MessageOr(e)
  ELSE IF d.type = "string" THEN <<d.str>>
  ELSE IF d.errorType # "undefined" /\ Truthy(d.error) THEN ErrorField(d)
  ELSE IF Truthy(d.message) THEN <<d.message>>
  ELSE Stringify(d)

(* ------------------------------------------------------------------ *)
(* Routes, providers, configuration                                    *)
(* ------------------------------------------------------------------ *)

\* The handlers modelled: the image chain with the Gemini stub ("image0"),
\* the image chain with the Gemini call ("image1"), the first image chain,
\* which answers { image, promptUsed, provider } ("image2"), the chat chain
\* ("chat"), the two-step chat chain xAI -> Gemini ("chat2") and the plain
\* xAI chat proxy ("proxy").
ImageRoutes == {"image0", "image1", "image2"}

\* The image handlers that build their result with ok().
OkRoutes == {"image0", "image1"}

\* The chains of three providers.
ChainRoutes == ImageRoutes \cup {"chat"}

ChatRoutes == {"chat", "chat2"}

\* The handlers that fall back from one provider to the next.
FallbackRoutes == ChainRoutes \cup {"chat2"}

Routes == FallbackRoutes \cup {"proxy"}

\* Mutant of Chain: the first two providers tried in the opposite order.
ChainSwapped(rt) ==
  IF rt \in ImageRoutes THEN <<"openai", "grok", "gemini">>
  ELSE IF rt = "chat" THEN <<"gemini", "xai", "openai">>
  ELSE IF rt = "chat2" THEN <<"gemini", "xai">>
  ELSE <<"xai">>

\* The providers of a route, in the order the handler tries them.
Chain(rt) ==
  IF rt \in ImageRoutes THEN <<"grok", "openai", "gemini">>
  ELSE IF rt = "chat" THEN <<"xai", "gemini", "openai">>
  ELSE IF rt = "chat2" THEN <<"xai", "gemini">>
  ELSE <<"xai">>

ProviderNames == {"grok", "xai", "openai", "gemini"}

EnvKeyNames == {"GROK_API_KEY", "XAI_API_KEY", "OPENAI_API_KEY", "GEMINI_API_KEY"}

\* Mutant of HasKey: the credential check is missing.
HasKeyAlways(rt, keys, p) == TRUE

\* Whether the credential the handler reads for provider p is set.
HasKey(rt, keys, p) ==
  IF rt = "image2" /\ p = "grok" THEN "GROK_API_KEY" \in keys
  ELSE IF p \in {"grok", "xai"} THEN "GROK_API_KEY" \in keys \/ "XAI_API_KEY" \in keys
  ELSE IF p = "openai" THEN "OPENAI_API_KEY" \in keys
  ELSE "GEMINI_API_KEY" \in keys

\* The message thrown when the credential of p is not set.
KeyNotSetMsg(rt, p) ==
  IF rt = "image2" /\ p = "grok" THEN <<"GROK_API_KEY not set">>
  ELSE IF p = "grok" THEN <<"GROK_API_KEY (or XAI_API_KEY) not set">>
  ELSE IF p = "xai" THEN <<"XAI_API_KEY (or GROK_API_KEY) not set">>
  ELSE IF p = "openai" THEN <<"OPENAI_API_KEY not set">>
  ELSE <<"GEMINI_API_KEY not set">>

\* Values of PROXY_TIMEOUT_MS in the environment ("unset": not set).
EnvTimeouts == {"unset", "1500"}

\* Number(s) for the numeric strings the environment holds.
NumberOf(s) ==
  CASE s = "1500" -> 1500
    [] s = "400" -> 400
    [] s = "1" -> 1
    [] s = "2" -> 2
    [] s = "3" -> 3
    [] s = "5" -> 5
    [] OTHER -> 0

\* Number(process.env.NAME || dflt) for the value v of NAME.
EnvNumber(v, dflt) == IF v = "unset" THEN dflt ELSE NumberOf(v)

\* process.env.NAME || dflt for the value v of NAME.
EnvString(v, dflt) == IF v = "unset" THEN dflt ELSE v

\* The cost guards of the chat handler.
MAX_MESSAGES(e) == EnvNumber(e.maxMessages, 24)
MAX_CHARS_PER_MESSAGE(e) == EnvNumber(e.maxChars, 3200)
MAX_TOTAL_INPUT_CHARS(e) == EnvNumber(e.maxTotal, 18000)
MAX_OUTPUT_TOKENS(e) == EnvNumber(e.maxOut, 900)

\* The fallback models of the chat handler.
GEMINI_FALLBACK_MODEL(e) == EnvString(e.geminiModel, "gemini-2.0-flash")
OPENAI_FALLBACK_MODEL(e) == EnvString(e.openaiModel, "gpt-4o-mini")

\* const timeoutMs = Number(process.env.PROXY_TIMEOUT_MS || 60000)
ChatTimeoutMs(e) == IF e.timeout = "unset" THEN 60000 ELSE NumberOf(e.timeout)

\* The timeout option of the axios call of a route; 0 is axios's "no
\* timeout", also its default when the option is not given.
CallTimeout(rt, e) ==
  IF rt \in ImageRoutes \/ rt = "chat2" THEN 60000
  ELSE IF rt = "chat" THEN ChatTimeoutMs(e)
  ELSE 0

\* The options each call site of the image chain passes to withRetry.
CallSitePolicy ==
  [grok |-> [tries |-> 2, delayMs |-> 700],
   openai |-> [tries |-> 2, delayMs |-> 700],
   gemini |-> [tries |-> 1, delayMs |-> 700],
   xai |-> [tries |-> 1, delayMs |-> 0]]

(* ------------------------------------------------------------------ *)
(* Requests and the chat handler's cost guard                          *)
(* ------------------------------------------------------------------ *)

\* A string of characters is the sequence of its characters.

\* One entry of body.messages.  type is typeof of the entry ("null" for a
\* null entry); contentType is typeof m.content; content holds the characters
\* of a string content; name stands for the fields an entry may carry besides
\* role and content.
Msg(role, content) ==
  [type |-> "object", role |-> role, contentType |-> "string", content |-> content,
   name |-> U]

\* The inbound request.  bodyType is typeof req.body; prompt, size, model,
\* messages and max_tokens are the fields of req.body, with promptType,
\* messagesType ("array" for a sequence) and maxTokensType their typeof;
\* maxTokensType "Infinity" is a max_tokens that is a number but not a
\* finite one (JSON.parse reads 1e999 as Infinity).
NoReq ==
  [method |-> "POST", bodyType |-> "object", prompt |-> U,
   promptType |-> "undefined", size |-> U, model |-> U,
   messagesType |-> "undefined", messages |-> <<>>,
   maxTokensType |-> "undefined", max_tokens |-> 0]

\* The names of the fields req.body carries.
BodyKeys(rq) ==
  IF rq.bodyType # "object" THEN {}
  ELSE (IF rq.promptType # "undefined" THEN {"prompt"} ELSE {})
       \cup (IF rq.size # U THEN {"size"} ELSE {})
       \cup (IF rq.model # U THEN {"model"} ELSE {})
       \cup (IF rq.messagesType # "undefined" THEN {"messages"} ELSE {})
       \cup (IF rq.maxTokensType # "undefined" THEN {"max_tokens"} ELSE {})

\* Mutant of PromptRejected: the typeof check is missing.
PromptRejectedFalsyOnly(rq) == ~Truthy(rq.prompt)

\* if (!prompt || typeof prompt !== "string"): the image handlers' check.
PromptRejected(rq) == ~Truthy(rq.prompt) \/ rq.promptType # "string"

\* Mutant of OptionalChain: m.role and m.content without the ?., which
\* raise a TypeError on a null or undefined entry.
PlainMemberAccess(m) == m.type \notin {"null", "undefined"}

\* m?.role, m?.content: whether reading a field of the entry m goes without
\* raising.  Optional chaining reads a field of null or undefined as
\* undefined.
OptionalChain(m) == TRUE

\* m?.content as a value: its typeof and, for a string, its characters.
ContentOf(m) ==
  IF m.type = "object" THEN [type |-> m.contentType, str |-> m.content]
  ELSE [type |-> "undefined", str |-> <<>>]

\* Mutant of RoleOf: every message becomes a user message.
RoleAlwaysUser(m) == "user"

\* m?.role || "user"
RoleOf(m) == IF m.type = "object" /\ Truthy(m.role) THEN m.role ELSE "user"

\* Mutant of clampText: the head is kept instead of the tail.
clampTextHead(s, max) ==
  LET t == IF s.type = "string" THEN s.str ELSE <<>> IN
  IF Len(t) <= max THEN t ELSE SubSeq(t, 1, max)

\* clampText(s, max)
clampText(s, max) ==
  LET t == IF s.type = "string" THEN s.str ELSE <<>> IN
  IF Len(t) <= max THEN t ELSE SubSeq(t, Len(t) - max + 1, Len(t))

\* Mutant of SliceLast: the first n messages are kept.
SliceFirst(messages, n) ==
  SubSeq(messages, 1, IF Len(messages) < n THEN Len(messages) ELSE n)

\* Mutant of SliceLast: Math.max(1, ...), the oldest message always goes.
SliceLastFromOne(messages, n) ==
  LET from == IF Len(messages) - n > 1 THEN Len(messages) - n ELSE 1 IN
  SubSeq(messages, from + 1, Len(messages))

\* messages.slice(Math.max(0, messages.length - n))
SliceLast(messages, n) ==
  LET from == IF Len(messages) - n > 0 THEN Len(messages) - n ELSE 0 IN
  SubSeq(messages, from + 1, Len(messages))

\* sliced.map(m => ({ role: m?.role || "user", content: clampText(...) }))
ClampAll(sliced, max) ==
  [j \in 1..Len(sliced) |-> Msg(RoleOf(sliced[j]), clampText(ContentOf(sliced[j]), max))]

RECURSIVE TotalChars(_)
\* clamped.reduce((sum, m) => sum + (m.content?.length || 0), 0)
TotalChars(ms) ==
  IF ms = <<>> THEN 0 ELSE Len(Head(ms).content) + TotalChars(Tail(ms))

RECURSIVE DropOldestToEmpty(_, _, _)
\* Mutant of DropOldest: the loop does not stop at the last message.
DropOldestToEmpty(out, total, cap) ==
  IF Len(out) > 0 /\ total > cap
  THEN DropOldestToEmpty(Tail(out), total - Len(Head(out).content), cap)
  ELSE out

RECURSIVE DropOldest(_, _, _)
\* while (out.length > 1 && total > cap) { removed = out.shift(); total -= ... }
DropOldest(out, total, cap) ==
  IF Len(out) > 1 /\ total > cap
  THEN DropOldest(Tail(out), total - Len(Head(out).content), cap)
  ELSE out

\* Mutant of MathMin: the larger of the two.
MathMax(a, b) == IF a < b THEN b ELSE a

\* Math.min(a, b)
MathMin(a, b) == IF a < b THEN a ELSE b

\* Number.isFinite(body.max_tokens)
NumberIsFinite(rq) == rq.bodyType = "object" /\ rq.maxTokensType = "number"

\* The body sanitizeChatBody returns and the chat handler forwards.  keys is
\* the set of its fields, model and prompt are the request's model and
\* prompt passed through (promptType is typeof prompt); threw is
\* whether the call raised instead of returning.
NoSafeBody ==
  [keys |-> {}, model |-> U, prompt |-> U, promptType |-> "undefined",
   messages |-> <<>>, max_tokens |-> 0, threw |-> FALSE]

\* sanitizeChatBody(bodyRaw)
sanitizeChatBody(rq, e) ==
  LET messages == IF rq.bodyType = "object" /\ rq.messagesType = "array"
                  THEN rq.messages ELSE <<>>
      sliced == SliceLast(messages, MAX_MESSAGES(e))
      clamped == ClampAll(sliced, MAX_CHARS_PER_MESSAGE(e))
      total == TotalChars(clamped)
      out == IF total > MAX_TOTAL_INPUT_CHARS(e)
             THEN DropOldest(clamped, total, MAX_TOTAL_INPUT_CHARS(e))
             ELSE clamped
  IN
  [keys |-> BodyKeys(rq) \cup {"messages", "max_tokens"},
   model |-> IF rq.bodyType = "object" THEN rq.model ELSE U,
   prompt |-> IF rq.bodyType = "object" THEN rq.prompt ELSE U,
   promptType |-> IF rq.bodyType = "object" THEN rq.promptType ELSE "undefined",
   messages |-> out,
   max_tokens |-> MathMin(IF NumberIsFinite(rq)
                          THEN rq.max_tokens ELSE MAX_OUTPUT_TOKENS(e),
                          MAX_OUTPUT_TOKENS(e)),
   threw |-> \E j \in 1..Len(sliced) : ~OptionalChain(sliced[j])]

\* The arrays and objects sanitizeChatBody works on.  The caller's message
\* objects are numbered 1..n: objs holds their values, and messages (the
\* caller's body.messages) and sliced are arrays of references to them.
\* clamped and out hold the objects the map callback creates.
CallerHeap(rq) ==
  LET ms == IF rq.bodyType = "object" /\ rq.messagesType = "array"
            THEN rq.messages ELSE <<>>
  IN [messages |-> [j \in 1..Len(ms) |-> j], objs |-> ms,
      sliced |-> <<>>, clamped |-> <<>>, out |-> <<>>]

\* Mutant of SliceStep: the oldest messages are cut off the caller's array
\* in place (messages.splice(0, messages.length - n)).
SliceStepInPlace(h, n) ==
  [h EXCEPT !.sliced = SliceLast(h.messages, n),
            !.messages = SliceLast(h.messages, n)]

\* const sliced = messages.slice(...): a new array of the same objects.
SliceStep(h, n) == [h EXCEPT !.sliced = SliceLast(h.messages, n)]

\* Mutant of MapStep: the callback also stores the clamped content in the
\* message it reads (m.content = clampText(m.content, max)).
MapStepInPlace(h, max) ==
  [h EXCEPT
     !.clamped = [j \in 1..Len(h.sliced) |->
                    Msg(RoleOf(h.objs[h.sliced[j]]),
                        clampText(ContentOf(h.objs[h.sliced[j]]), max))],
     !.objs = [id \in 1..Len(h.objs) |->
                 IF (\E j \in 1..Len(h.sliced) : h.sliced[j] = id)
                    /\ h.objs[id].type = "object"
                 THEN [h.objs[id] EXCEPT
                         !.content = clampText(ContentOf(h.objs[id]), max),
                         !.contentType = "string"]
                 ELSE h.objs[id]]]

\* const clamped = sliced.map(m => ({ role: ..., content: ... })): the
\* callback reads m and returns a new object literal.
MapStep(h, max) ==
  [h EXCEPT
     !.clamped = [j \in 1..Len(h.sliced) |->
                    Msg(RoleOf(h.objs[h.sliced[j]]),
                        clampText(ContentOf(h.objs[h.sliced[j]]), max))]]

\* const out = [...clamped]; while (...) out.shift(): the shifts act on the
\* copy, when the total exceeds the cap.
ShiftStep(h, cap) ==
  IF TotalChars(h.clamped) > cap
  THEN [h EXCEPT !.out = DropOldest(h.clamped, TotalChars(h.clamped), cap)]
  ELSE h

\* The arrays and objects when sanitizeChatBody(bodyRaw) returns.
SanitizeHeap(rq, e) ==
  ShiftStep(MapStep(SliceStep(CallerHeap(rq), MAX_MESSAGES(e)),
                    MAX_CHARS_PER_MESSAGE(e)),
            MAX_TOTAL_INPUT_CHARS(e))

\* req.body after sanitizeChatBody(req.body) returned: the caller's messages
\* array and message objects as the call left them.  The result is a new
\* object ({ ...body, messages, max_tokens }), so body's own fields stay.
BodyAfterSanitize(rq, e) ==
  IF rq.bodyType = "object" /\ rq.messagesType = "array"
  THEN LET h == SanitizeHeap(rq, e) IN
       [rq EXCEPT !.messages = [j \in 1..Len(h.messages) |-> h.objs[h.messages[j]]]]
  ELSE rq

\* The object sanitizeChatBody returned, { ...body, messages, max_tokens },
\* as the body of a request: the fields of body, with messages and
\* max_tokens replaced.
SafeAsRequest(rq, safe) ==
  [(IF rq.bodyType = "object" THEN rq ELSE NoReq) EXCEPT
     !.method = rq.method, !.bodyType = "object",
     !.messagesType = "array", !.messages = safe.messages,
     !.maxTokensType = "number", !.max_tokens = safe.max_tokens]

(* ------------------------------------------------------------------ *)
(* Payloads of the upstream calls                                      *)
(* ------------------------------------------------------------------ *)

\* What one upstream call sends.  keys is the set of the top-level fields of
\* the JSON payload; model is the model the call names, in the payload or,
\* for Gemini, in the URL; messages is the payload's messages field; maxOut
\* is the output-token limit it carries (0: none); aspectRatio is
\* generationConfig.imageConfig.aspectRatio; contents is the contents of a
\* Gemini chat request, each entry a role and the text of its one part, and
\* system is the text of its systemInstruction.
NoPayload ==
  [made |-> FALSE, keys |-> {}, model |-> U, prompt |-> U, size |-> U,
   aspectRatio |-> U, messages |-> <<>>, maxOut |-> 0,
   contents |-> <<>>, system |-> <<>>]

\* const requestedSize = size || "1024x1024"
requestedSize(rq) == OrElse(rq.size, "1024x1024")

\* const grokModel = model || "grok-2-image-1212"
grokModel(rq) == OrElse(rq.model, "grok-2-image-1212")

\* sizeToAspect(s) of the Gemini image call
sizeToAspect(s) ==
  IF s \in {"1024x1024", "512x512"} THEN "1:1"
  ELSE IF s = "1536x1024" THEN "3:2"
  ELSE IF s = "1024x1536" THEN "2:3"
  ELSE IF s = "1344x768" THEN "16:9"
  ELSE IF s = "768x1344" THEN "9:16"
  ELSE "1:1"

\* The payload of the image handlers' calls.
ImagePayload(rt, p, rq) ==
  IF p = "grok"
  THEN IF rt = "image2"
       THEN [NoPayload EXCEPT !.made = TRUE, !.keys = {"model", "prompt", "size"},
                              !.model = grokModel(rq), !.prompt = rq.prompt,
                              !.size = requestedSize(rq)]
       ELSE [NoPayload EXCEPT !.made = TRUE, !.keys = {"model", "prompt"},
                              !.model = grokModel(rq), !.prompt = rq.prompt]
  ELSE IF p = "openai"
  THEN [NoPayload EXCEPT !.made = TRUE,
          !.keys = IF rt = "image2" THEN {"prompt", "size", "response_format"}
                   ELSE {"model", "prompt", "size", "response_format"},
          !.model = IF rt = "image2" THEN U ELSE "gpt-image-1",
          !.prompt = rq.prompt, !.size = requestedSize(rq)]
  ELSE [NoPayload EXCEPT !.made = TRUE, !.keys = {"contents", "generationConfig"},
          !.model = "gemini-2.5-flash-image", !.prompt = rq.prompt,
          !.aspectRatio = sizeToAspect(requestedSize(rq))]

\* req.body as the payload of a call that forwards it unchanged.
RawPayload(rq) ==
  [NoPayload EXCEPT
     !.made = TRUE, !.keys = BodyKeys(rq),
     !.model = IF rq.bodyType = "object" THEN rq.model ELSE U,
     !.messages = IF rq.bodyType = "object" /\ rq.messagesType = "array"
                  THEN rq.messages ELSE <<>>,
     !.maxOut = IF rq.bodyType = "object" /\ rq.maxTokensType = "number"
                THEN rq.max_tokens ELSE 0]

\* String.prototype.trim, on the prompts of the model.
Trim(str) ==
  CASE str = " tell me more " -> "tell me more"
    [] str = "  " -> ""
    [] OTHER -> str

\* m?.role
RawRole(m) == IF m.type = "object" THEN m.role ELSE U

\* typeof m?.content === "string" ? m.content : ""
TextOf(m) == IF ContentOf(m).type = "string" THEN ContentOf(m).str ELSE <<>>

\* Mutant of GeminiRole: the assistant role is not renamed.
GeminiRoleUnmapped(role) == IF role = "assistant" THEN "assistant" ELSE "user"

\* role === "assistant" ? "model" : "user"
GeminiRole(role) == IF role = "assistant" THEN "model" ELSE "user"

RECURSIVE SysTexts(_)
\* toGeminiRequest's loop: the contents pushed to sysTexts.
SysTexts(msgs) ==
  IF msgs = <<>> THEN <<>>
  ELSE IF TextOf(Head(msgs)) # <<>> /\ RawRole(Head(msgs)) = "system"
  THEN <<TextOf(Head(msgs))>> \o SysTexts(Tail(msgs))
  ELSE SysTexts(Tail(msgs))

RECURSIVE LoopContents(_)
\* toGeminiRequest's loop: the entries pushed to contents.
LoopContents(msgs) ==
  IF msgs = <<>> THEN <<>>
  ELSE IF TextOf(Head(msgs)) = <<>> \/ RawRole(Head(msgs)) = "system"
  THEN LoopContents(Tail(msgs))
  ELSE <<[role |-> GeminiRole(RawRole(Head(msgs))), text |-> TextOf(Head(msgs))]>>
       \o LoopContents(Tail(msgs))

RECURSIVE JoinBlankLine(_)
\* sysTexts.join("\n\n")
JoinBlankLine(texts) ==
  IF texts = <<>> THEN <<>>
  ELSE IF Len(texts) = 1 THEN texts[1]
  ELSE texts[1] \o <<"\n", "\n">> \o JoinBlankLine(Tail(texts))

\* toGeminiRequest(body), the parts of reqBody made from messages and
\* prompt: contents, whether systemInstruction is set, and its text.  The
\* loop is the same in the three-step handler, in the two-step handler and
\* in part_003.
toGeminiRequest(messages, prompt, promptType) ==
  LET looped == LoopContents(messages)
      sysTexts == SysTexts(messages)
  IN
  [contents |-> IF looped = <<>> /\ promptType = "string" /\ Trim(prompt) # ""
                THEN <<[role |-> "user", text |-> <<Trim(prompt)>>]>>
                ELSE looped,
   hasSystem |-> sysTexts # <<>>,
   system |-> JoinBlankLine(sysTexts)]

\* The payload of the chat chain's calls: safeBody to xAI, the Gemini
\* request of toGeminiRequest(safeBody), the OpenAI payload.
ChatPayload(p, safe, e) ==
  IF p = "xai"
  THEN [NoPayload EXCEPT !.made = TRUE, !.keys = safe.keys, !.model = safe.model,
                         !.messages = safe.messages, !.maxOut = safe.max_tokens]
  ELSE IF p = "gemini"
  THEN LET g == toGeminiRequest(safe.messages, safe.prompt, safe.promptType) IN
       [NoPayload EXCEPT
          !.made = TRUE,
          !.keys = {"contents", "generationConfig"}
                   \cup (IF g.hasSystem THEN {"systemInstruction"} ELSE {}),
          !.model = GEMINI_FALLBACK_MODEL(e),
          !.maxOut = MAX_OUTPUT_TOKENS(e),
          !.contents = g.contents, !.system = g.system]
  ELSE [NoPayload EXCEPT !.made = TRUE,
          !.keys = {"model", "messages", "temperature", "top_p", "max_tokens"},
          !.model = OPENAI_FALLBACK_MODEL(e),
          !.messages = safe.messages, !.maxOut = safe.max_tokens]

\* toGeminiRequest of the two-step chat chain:
\* geminiModel = model || process.env.GEMINI_MODEL || "gemini-2.0-flash"
geminiModel2(rq, e) ==
  IF rq.bodyType = "object" /\ Truthy(rq.model) THEN rq.model
  ELSE GEMINI_FALLBACK_MODEL(e)

\* The payload of the two-step chat chain's calls: req.body to xAI, the
\* Gemini request of toGeminiRequest(req.body).
Chat2Payload(p, rq, e) ==
  IF p = "xai" THEN RawPayload(rq)
  ELSE LET g == toGeminiRequest(RawPayload(rq).messages,
                                IF rq.bodyType = "object" THEN rq.prompt ELSE U,
                                IF rq.bodyType = "object" THEN rq.promptType
                                ELSE "undefined")
       IN
       [NoPayload EXCEPT
          !.made = TRUE,
          !.keys = {"contents", "generationConfig"}
                   \cup (IF g.hasSystem THEN {"systemInstruction"} ELSE {}),
          !.model = geminiModel2(rq, e),
          !.maxOut = RawPayload(rq).maxOut,
          !.contents = g.contents, !.system = g.system]

\* The payload provider p is called with.
PayloadOf(rt, p, rq, safe, e) ==
  IF rt \in ImageRoutes THEN ImagePayload(rt, p, rq)
  ELSE IF rt = "chat" THEN ChatPayload(p, safe, e)
  ELSE IF rt = "chat2" THEN Chat2Payload(p, rq, e)
  ELSE RawPayload(rq)

(* ------------------------------------------------------------------ *)
(* Response bodies                                                     *)
(* ------------------------------------------------------------------ *)

NoDetails == [n \in {} |-> <<>>]

\* The JSON body handed to res.json.  keys is the set of its top-level
\* fields; the other fields hold their values (U or <<>> when absent).
NoBody ==
  [keys |-> {}, error |-> U, details |-> NoDetails, provider |-> U,
   promptUsed |-> U, url |-> U, b64_json |-> U, image |-> <<>>, model |-> U,
   text |-> <<>>, raw |-> NoData, id |-> U, finish_reason |-> U]

NoRes == [status |-> 0, body |-> NoBody]

\* ok({ provider, promptUsed, url, b64_json }) of the image handler.
ok(provider, promptUsed, prompt, url, b64_json) ==
  [NoBody EXCEPT !.keys = {"provider", "promptUsed", "data"},
                 !.provider = provider,
                 !.promptUsed = OrElse(promptUsed, prompt),
                 !.url = IF Truthy(url) THEN url ELSE U,
                 !.b64_json = IF Truthy(b64_json) THEN b64_json ELSE U]

\* The result of one attempt function: a value, or a thrown error.
Returned(body) == [ok |-> TRUE, value |-> body, err |-> NoErr]
Thrown(e) == [ok |-> FALSE, value |-> NoBody, err |-> e]

\* v.startsWith("http")
StartsWithHttp(v) == v \in {"https://img/1.png", "https://img/2.png"}

\* v.startsWith("data:image/") and v.split("base64,") has two pieces
IsDataUri(v) == v \in {"data:image/png;base64,REVG"}

\* v.split("base64,")[1]
DataUriPayload(v) == IF v = "data:image/png;base64,REVG" THEN "REVG" ELSE U

\* Mutant of tryGrok: the status check is missing.
tryGrokNoStatusCheck(r, a, prompt) ==
  LET data == IF r.data.type = "undefined" THEN EmptyObj ELSE r.data
      b64 == OrElse(data.b64_json, data.b64)
      used == OrElse(data.promptUsed, prompt)
  IN
  IF Truthy(data.url) THEN Returned(ok("grok", used, prompt, data.url, U))
  ELSE IF Truthy(b64) THEN Returned(ok("grok", used, prompt, U, b64))
  ELSE Thrown(NewError("grok", a,
         <<"Grok returned no image payload (no url/b64_json)">>))

\* tryGrok after the axios call answered r (validateStatus: () => true).
tryGrok(r, a, prompt) ==
  LET data == IF r.data.type = "undefined" THEN EmptyObj ELSE r.data
      b64 == OrElse(data.b64_json, data.b64)
      used == OrElse(data.promptUsed, prompt)
  IN
  IF r.status < 200 \/ r.status >= 300
  THEN Thrown(NewError("grok", a,
         <<"xAI ", ToString(r.status), ": ">> \o errMsgImage(ResponseOnly(r))))
  ELSE IF Truthy(data.url) THEN Returned(ok("grok", used, prompt, data.url, U))
  ELSE IF Truthy(b64) THEN Returned(ok("grok", used, prompt, U, b64))
  ELSE IF data.image # U /\ StartsWithHttp(data.image)
  THEN Returned(ok("grok", used, prompt, data.image, U))
  ELSE IF data.image # U /\ IsDataUri(data.image)
  THEN Returned(ok("grok", used, prompt, U, DataUriPayload(data.image)))
  ELSE Thrown(NewError("grok", a,
         <<"Grok returned no image payload (no url/b64_json)">>))

\* tryOpenAI of the image handler after the axios call answered r.
tryOpenAI(r, a, prompt) ==
  IF r.status < 200 \/ r.status >= 300
  THEN Thrown(NewError("openai", a,
         <<"OpenAI ", ToString(r.status), ": ">> \o errMsgImage(ResponseOnly(r))))
  ELSE IF ~Truthy(r.data.b64_json)
  THEN Thrown(NewError("openai", a,
         <<"OpenAI returned no image payload (no b64_json)">>))
  ELSE Returned(ok("openai", prompt, prompt, U, r.data.b64_json))

\* Mutant of Slice: the last n characters.
SliceEnd(s, n) == SubSeq(s, IF Len(s) < n THEN 1 ELSE Len(s) - n + 1, Len(s))

\* s.slice(0, n)
Slice(s, n) == SubSeq(s, 1, IF Len(s) < n THEN Len(s) ELSE n)

\* parts.find(pred): the first part satisfying it, NoPart when there is none.
FirstInline(parts) ==
  LET hits == {j \in 1..Len(parts) : Truthy(parts[j].inlineData)} IN
  IF hits = {} THEN NoPart
  ELSE parts[CHOOSE j \in hits : \A h \in hits : j <= h]

\* typeof p.text === "string" && p.text.trim()
HasText(part) == \E j \in 1..Len(part.text) : part.text[j] # " "

FirstText(parts) ==
  LET hits == {j \in 1..Len(parts) : HasText(parts[j])} IN
  IF hits = {} THEN NoPart
  ELSE parts[CHOOSE j \in hits : \A h \in hits : j <= h]

\* tryGemini of the image handler that calls Gemini, after the axios call
\* answered r (default validateStatus: a non-2xx answer rejects).
tryGeminiImage(r, a, prompt) ==
  LET inline == FirstInline(r.data.parts)
      textPart == FirstText(r.data.parts)
  IN
  IF ~Is2xx(r.status) THEN Thrown(AxiosStatusError("gemini", a, r))
  ELSE IF Truthy(inline.inlineData)
  THEN Returned([NoBody EXCEPT
         !.keys = {"image", "promptUsed", "provider", "model"},
         !.image = <<"data:", OrElse(inline.mimeType, "image/png"), ";base64,",
                     inline.inlineData>>,
         !.promptUsed = prompt, !.provider = "gemini",
         !.model = "gemini-2.5-flash-image"])
  ELSE IF textPart.text # <<>>
  THEN Thrown(NewError("gemini", a,
         <<"Gemini returned text but no image: ">>
         \o Slice(textPart.text, ErrorTextLimit)))
  ELSE Thrown(NewError("gemini", a, <<"Gemini returned no image payload">>))

\* Mutant of JoinTexts: the text of the first part only.
JoinTextsFirstOnly(parts) == IF parts = <<>> THEN <<>> ELSE Head(parts).text

RECURSIVE JoinTexts(_)
\* parts.map(p => p.text).filter(Boolean).join("")
JoinTexts(parts) ==
  IF parts = <<>> THEN <<>> ELSE Head(parts).text \o JoinTexts(Tail(parts))

\* fromGeminiToChatCompletions(geminiResp, modelName)
fromGeminiToChatCompletions(r, modelName) ==
  [NoBody EXCEPT !.keys = {"id", "object", "model", "choices"},
                 !.id = "gemini_fallback", !.model = modelName,
                 !.text = JoinTexts(r.data.parts), !.finish_reason = "stop"]

\* fromOpenAIToChatCompletions(openaiResp, modelName)
fromOpenAIToChatCompletions(r, modelName) ==
  [NoBody EXCEPT !.keys = {"id", "object", "model", "choices"},
                 !.id = OrElse(r.data.id, "openai_fallback"), !.model = modelName,
                 !.text = IF Truthy(r.data.content) THEN <<r.data.content>> ELSE <<>>,
                 !.finish_reason = OrElse(r.data.finish_reason, "stop")]

\* One provider step of the chat handler after postWithTimeout answered r
\* (default validateStatus): the body it sends, or the error it catches.
tryChat(p, r, a, e) ==
  IF ~Is2xx(r.status) THEN Thrown(AxiosStatusError(p, a, r))
  ELSE IF p = "xai"
  THEN Returned([NoBody EXCEPT !.keys = {"raw"}, !.raw = r.data])
  ELSE IF p = "gemini"
  THEN Returned(fromGeminiToChatCompletions(r, GEMINI_FALLBACK_MODEL(e)))
  ELSE Returned(fromOpenAIToChatCompletions(r, OPENAI_FALLBACK_MODEL(e)))

\* One provider step of the two-step chat chain after postWithTimeout
\* answered r; its Gemini answer also carries gemini_raw.
tryChat2(p, r, a, rq, e) ==
  IF ~Is2xx(r.status) THEN Thrown(AxiosStatusError(p, a, r))
  ELSE IF p = "xai"
  THEN Returned([NoBody EXCEPT !.keys = {"raw"}, !.raw = r.data])
  ELSE Returned([fromGeminiToChatCompletions(r, geminiModel2(rq, e)) EXCEPT
                   !.keys = {"id", "object", "model", "choices", "gemini_raw"},
                   !.raw = IF r.data.type = "undefined" THEN EmptyObj ELSE r.data])

\* `data:image/png;base64,${b64}`
PngDataUri(b64) == <<"data:image/png;base64,", b64>>

\* { image, promptUsed, provider }: the result of the first image chain.
ImageResult(image, promptUsed, provider) ==
  [NoBody EXCEPT !.keys = {"image", "promptUsed", "provider"},
                 !.image = image, !.promptUsed = promptUsed,
                 !.provider = provider]

\* tryGrok of the first image chain after the axios call answered r
\* (default validateStatus: a non-2xx answer rejects).
tryGrok2(r, a, prompt) ==
  IF ~Is2xx(r.status) THEN Thrown(AxiosStatusError("grok", a, r))
  ELSE IF Truthy(r.data.image)
  THEN Returned(ImageResult(<<r.data.image>>, OrElse(r.data.promptUsed, prompt), "grok"))
  ELSE IF Truthy(r.data.b64_json)
  THEN Returned(ImageResult(PngDataUri(r.data.b64_json),
                            OrElse(r.data.promptUsed, prompt), "grok"))
  ELSE Thrown(NewError("grok", a, <<"Grok returned no image payload">>))

\* tryOpenAI of the first image chain after the axios call answered r.
tryOpenAI2(r, a, prompt) ==
  IF ~Is2xx(r.status) THEN Thrown(AxiosStatusError("openai", a, r))
  ELSE IF ~Truthy(r.data.b64_json)
  THEN Thrown(NewError("openai", a, <<"OpenAI returned no image payload">>))
  ELSE Returned(ImageResult(PngDataUri(r.data.b64_json), prompt, "openai"))

\* Whether the attempt function of p makes an upstream call at all once its
\* credential is present (the Gemini step of "image0" and of "image2" is a
\* stub that throws).
MakesCall(rt, p) == ~(rt \in {"image0", "image2"} /\ p = "gemini")

\* The message the Gemini stub throws.
StubMsg(rt) ==
  IF rt = "image2"
  THEN <<"Gemini image fallback not wired yet (needs endpoint/payload)">>
  ELSE <<"Gemini image fallback not implemented yet">>

\* What the attempt function of provider p does with the answer r.
AttemptResult(rt, p, r, a, rq, e) ==
  IF rt = "chat" THEN tryChat(p, r, a, e)
  ELSE IF rt = "chat2" THEN tryChat2(p, r, a, rq, e)
  ELSE IF rt = "image2"
  THEN IF p = "grok" THEN tryGrok2(r, a, rq.prompt) ELSE tryOpenAI2(r, a, rq.prompt)
  ELSE IF p = "grok" THEN tryGrok(r, a, rq.prompt)
  ELSE IF p = "openai" THEN tryOpenAI(r, a, rq.prompt)
  ELSE tryGeminiImage(r, a, rq.prompt)

(* ------------------------------------------------------------------ *)
(* The handlers                                                        *)
(* ------------------------------------------------------------------ *)

Methods == {"POST", "OPTIONS", "GET"}

NoCall == [active |-> FALSE, prov |-> U, timeout |-> 0]

\* The attempt budget of provider p: withRetry's tries in the image chain;
\* the chat chain and the proxy call each provider once, without withRetry.
Tries(rt, pol, p) == IF rt \in ImageRoutes THEN pol[p].tries ELSE 1

\* Mutant of Cur: the order is kept in a variable of the module that the
\* handler updates, and the provider that answered another request last is
\* tried first by the request under way.
CurAdaptive ==
  IF Len(Chain(route)) > 1 /\ other.won = Chain(route)[2] /\ k <= 2
  THEN IF k = 1 THEN Chain(route)[2] ELSE Chain(route)[1]
  ELSE Chain(route)[k]

Cur == Chain(route)[k]

\* Mutant of RetryLastErr: the first error is kept.
RetryLastErrFirst(prev, e) == IF prev = NoErr THEN e ELSE prev

\* withRetry: lastErr = e
RetryLastErr(prev, e) == e

\* withRetry: if (i < tries - 1) await sleep(...)
SleepsAfter(j, tries) == j < tries - 1

\* Mutant of BackoffDelay: the same delay after every attempt.
BackoffDelayConstant(delayMs, j) == delayMs

\* withRetry: sleep(delayMs * (i + 1))
BackoffDelay(delayMs, j) == delayMs * (j + 1)

\* Mutant of LoopContinues: one attempt too many.
LoopContinuesOneMore(j, tries) == j <= tries

\* withRetry: the loop condition i < tries
LoopContinues(j, tries) == j < tries

\* Mutant of AllFailedBody: the details of the last two providers swapped.
AllFailedBodySwapped(rt, es) ==
  [NoBody EXCEPT
     !.keys = IF rt = "chat" THEN {"error", "requestId", "details"}
              ELSE {"error", "details"},
     !.error = IF rt \in ChatRoutes THEN "All providers failed"
               ELSE "All image providers failed",
     !.details = IF rt = "chat"
                 THEN [xai |-> errMsgChat(es["xai"]),
                       gemini |-> errMsgChat(es["openai"]),
                       openai |-> errMsgChat(es["gemini"])]
                 ELSE IF rt = "chat2"
                 THEN [xai |-> errMsgChat(es["gemini"]),
                       gemini |-> errMsgChat(es["xai"])]
                 ELSE [grok |-> errMsgImage(es["grok"]),
                       openai |-> errMsgImage(es["gemini"]),
                       gemini |-> errMsgImage(es["openai"])]]

\* The body of the 502 answer of a chain handler.
AllFailedBody(rt, es) ==
  [NoBody EXCEPT
     !.keys = IF rt = "chat" THEN {"error", "requestId", "details"}
              ELSE {"error", "details"},
     !.error = IF rt \in ChatRoutes THEN "All providers failed"
               ELSE "All image providers failed",
     !.details = IF rt = "chat"
                 THEN [xai |-> errMsgChat(es["xai"]),
                       gemini |-> errMsgChat(es["gemini"]),
                       openai |-> errMsgChat(es["openai"])]
                 ELSE IF rt = "chat2"
                 THEN [xai |-> errMsgChat(es["xai"]),
                       gemini |-> errMsgChat(es["gemini"])]
                 ELSE [grok |-> errMsgImage(es["grok"]),
                       openai |-> errMsgImage(es["openai"]),
                       gemini |-> errMsgImage(es["gemini"])]]

\* res.status(s).json(b): the handler answers and ends.
Send(s, b) ==
  /\ res' = [status |-> s, body |-> b]
  /\ sent' = sent + 1
  /\ pc' = "done"

\* Mutant of Fallback: the first failure is answered with the 502 at once.
FallbackGiveUp(e) ==
  /\ errs' = [errs EXCEPT ![Cur] = e]
  /\ lastErr' = NoErr
  /\ Send(502, AllFailedBody(route, errs'))
  /\ UNCHANGED <<k, i>>

\* The catch block of provider Cur caught e: the next provider's try block,
\* or the 502 answer after the last one.
Fallback(e) ==
  /\ errs' = [errs EXCEPT ![Cur] = e]
  /\ lastErr' = NoErr
  /\ IF k < Len(Chain(route))
     THEN /\ k' = k + 1
          /\ i' = 0
          /\ pc' = "attempt"
          /\ UNCHANGED <<res, sent>>
     ELSE /\ Send(502, AllFailedBody(route, errs'))
          /\ UNCHANGED <<k, i>>

\* withRetry's loop goes on with i = j: another attempt, or throw lastErr.
LoopNext(j, le) ==
  IF LoopContinues(j, Tries(route, policy, Cur))
  THEN /\ i' = j
       /\ pc' = "attempt"
       /\ lastErr' = le
       /\ UNCHANGED <<k, errs, res, sent>>
  ELSE Fallback(le)

\* The attempt of provider Cur failed with e.
Caught(e) ==
  /\ inflight' = NoCall
  /\ thrown' = [thrown EXCEPT ![Cur] = e]
  /\ UNCHANGED resp
  /\ IF route \in ImageRoutes
     THEN LET le == RetryLastErr(lastErr, e) IN
          IF SleepsAfter(i, policy[Cur].tries)
          THEN /\ lastErr' = le
               /\ slept' = [slept EXCEPT ![Cur] =
                              Append(@, BackoffDelay(policy[Cur].delayMs, i))]
               /\ pc' = "sleep"
               /\ UNCHANGED <<k, i, errs, res, sent>>
          ELSE /\ LoopNext(i + 1, le)
               /\ UNCHANGED slept
     ELSE /\ Fallback(e)
          /\ UNCHANGED slept

\* Mutant of Succeed: the handler answers 200 and goes on to the next provider.
SucceedAndContinue(r, body) ==
  /\ res' = [status |-> 200, body |-> body]
  /\ sent' = sent + 1
  /\ resp' = r
  /\ inflight' = NoCall
  /\ IF k < Len(Chain(route))
     THEN k' = k + 1 /\ i' = 0 /\ pc' = "attempt"
     ELSE pc' = "done" /\ UNCHANGED <<k, i>>
  /\ UNCHANGED <<lastErr, errs, slept, thrown>>

\* Mutant of Succeed: withRetry sleeps its backoff delay after the good
\* attempt too, before it returns the result.
SucceedAfterDelay(r, body) ==
  /\ Send(200, body)
  /\ resp' = r
  /\ inflight' = NoCall
  /\ slept' = [slept EXCEPT ![Cur] =
                 IF route \in ImageRoutes
                 THEN Append(@, BackoffDelay(policy[Cur].delayMs, i)) ELSE @]
  /\ UNCHANGED <<k, i, lastErr, errs, thrown>>

\* The attempt of provider Cur produced body: answer 200 and return.
Succeed(r, body) ==
  /\ Send(200, body)
  /\ resp' = r
  /\ inflight' = NoCall
  /\ UNCHANGED <<k, i, lastErr, errs, slept, thrown>>

\* The handler runs from the request's arrival to its first provider step:
\* preflight, method check, in the image handlers the prompt check, in the
\* chat handler the sanitizing of the body.  sanitizeChatBody is called
\* outside every try block: were it to raise, the handler would end there
\* without an answer of its own.
Arrive ==
  /\ pc = "start"
  /\ IF req.method = "OPTIONS" THEN Send(200, NoBody) /\ UNCHANGED safeBody
     ELSE IF req.method # "POST"
     THEN /\ Send(405, [NoBody EXCEPT !.keys = {"error"}, !.error = "Method not allowed"])
          /\ UNCHANGED safeBody
     ELSE IF route \in ImageRoutes /\ PromptRejected(req)
     THEN /\ Send(400, [NoBody EXCEPT !.keys = {"error"},
                                      !.error = "Missing required field: prompt"])
          /\ UNCHANGED safeBody
     ELSE IF route = "chat" /\ sanitizeChatBody(req, env).threw
     THEN /\ pc' = "done"
          /\ safeBody' = sanitizeChatBody(req, env)
          /\ UNCHANGED <<res, sent>>
     ELSE /\ pc' = "attempt"
          /\ safeBody' = IF route = "chat" THEN sanitizeChatBody(req, env) ELSE safeBody
          /\ UNCHANGED <<res, sent>>
  /\ req' = IF route = "chat" /\ req.method = "POST"
            THEN BodyAfterSanitize(req, env) ELSE req
  /\ UNCHANGED <<other, got, open, route, env, policy, goodAt, k, i, inflight, resp,
                 lastErr, errs, hdr, invoked, ncalls, slept, thrown, payload>>

\* The attempt function of provider Cur is invoked: it throws when the
\* credential is not set (or it is the stub), else it makes the upstream call.
Invoke ==
  /\ pc = "attempt"
  /\ invoked' = [invoked EXCEPT ![Cur] = @ + 1]
  /\ IF route # "proxy" /\ ~HasKey(route, env.keys, Cur)
     THEN /\ Caught(NewError(Cur, i, KeyNotSetMsg(route, Cur)))
          /\ UNCHANGED <<hdr, ncalls, payload, open>>
     ELSE IF ~MakesCall(route, Cur)
     THEN /\ Caught(NewError(Cur, i, StubMsg(route)))
          /\ UNCHANGED <<hdr, ncalls, payload, open>>
     ELSE /\ inflight' = [active |-> TRUE, prov |-> Cur,
                          timeout |-> CallTimeout(route, env)]
          /\ ncalls' = [ncalls EXCEPT ![Cur] = @ + 1]
          /\ open' = open + 1
          /\ payload' = [payload EXCEPT
                           ![Cur] = PayloadOf(route, Cur, req, safeBody, env)]
          /\ hdr' = IF route = "chat" THEN Cur ELSE hdr
          /\ pc' = "await"
          /\ UNCHANGED <<k, i, resp, lastErr, errs, res, sent, slept, thrown>>
  /\ UNCHANGED <<other, got, route, req, env, policy, goodAt, safeBody>>

\* The upstream answers the call of a chain handler.
Answer ==
  /\ pc = "await"
  /\ route \in FallbackRoutes
  /\ \E r \in Responses :
       LET out == AttemptResult(route, Cur, r, i, req, env) IN
       /\ out.ok <=> (i = goodAt[Cur])
       /\ got' = IF Cur = "gemini"
                 THEN [status |-> r.status, parts |-> r.data.parts]
                 ELSE got
       /\ IF out.ok THEN Succeed(r, out.value) ELSE Caught(out.err)
  /\ open' = open - 1
  /\ UNCHANGED <<other, route, req, env, policy, goodAt, hdr, invoked, ncalls,
                 safeBody, payload>>

\* Mutant of TimeOut: the handler goes on and the call is not aborted.
TimeOutLeavesCallOpen ==
  /\ pc = "await"
  /\ inflight.timeout > 0
  /\ i # goodAt[Cur]
  /\ Caught(AxiosTimeoutError(Cur, i, inflight.timeout))
  /\ UNCHANGED <<other, got, open, route, req, env, policy, goodAt, hdr, invoked, ncalls,
                 safeBody, payload>>

\* The call's timeout elapses before the upstream answers: axios aborts the
\* call and rejects.
TimeOut ==
  /\ pc = "await"
  /\ inflight.timeout > 0
  /\ i # goodAt[Cur]
  /\ Caught(AxiosTimeoutError(Cur, i, inflight.timeout))
  /\ open' = open - 1
  /\ UNCHANGED <<other, got, route, req, env, policy, goodAt, hdr, invoked, ncalls,
                 safeBody, payload>>

\* Mutant of Wake: the promise of sleep is never resolved
\* (new Promise(() => setTimeout(() => {}, ms))), the handler waits for ever.
WakeNever ==
  /\ pc = "sleep"
  /\ UNCHANGED vars

\* withRetry's sleep ends.
Wake ==
  /\ pc = "sleep"
  /\ LoopNext(i + 1, lastErr)
  /\ UNCHANGED <<other, got, open, route, req, env, policy, goodAt, inflight, resp, hdr, invoked,
                 ncalls, slept, thrown, safeBody, payload>>

\* The upstream answers the call of the plain proxy: a 2xx body is passed
\* on, anything else is answered with the upstream's status.
ProxyAnswer ==
  /\ pc = "await"
  /\ route = "proxy"
  /\ \E r \in Responses :
       /\ resp' = r
       /\ IF Is2xx(r.status)
          THEN Send(200, [NoBody EXCEPT !.keys = {"raw"}, !.raw = r.data])
          ELSE Send(r.status, [NoBody EXCEPT !.keys = {"error"}, !.error = "Proxy error"])
  /\ inflight' = NoCall
  /\ open' = open - 1
  /\ UNCHANGED <<other, got, route, req, env, policy, goodAt, k, i, lastErr, errs, hdr,
                 invoked, ncalls, slept, thrown, safeBody, payload>>

\* The call of the plain proxy fails without an answer (the connection
\* breaks): error.response is not set and the handler answers 500.
ProxyNetworkError ==
  /\ pc = "await"
  /\ route = "proxy"
  /\ Send(500, [NoBody EXCEPT !.keys = {"error"}, !.error = "Proxy error"])
  /\ inflight' = NoCall
  /\ open' = open - 1
  /\ UNCHANGED <<other, got, route, req, env, policy, goodAt, k, i, resp, lastErr, errs, hdr,
                 invoked, ncalls, slept, thrown, safeBody, payload>>

(* ------------------------------------------------------------------ *)
(* A second invocation of the handler                                  *)
(* ------------------------------------------------------------------ *)

\* The handlers keep everything in locals, so a second request handled at
\* the same time has its own position in the chain, its own loop variable and
\* its own outcome; it reads the same process.env and the same chain.
\*   pc, k, i   where its handler is, as for the first request
\*   good       the attempt at which each provider's upstream answers it well
\*   tried      the providers its handler turned to, once per attempt, in order
\*   status     the status it was answered with (0: not answered yet)
\*   won        the provider its answer came from
NoOther ==
  [pc |-> "none", k |-> 1, i |-> 0, good |-> [p \in ProviderNames |-> 0],
   tried |-> <<>>, status |-> 0, won |-> U]

\* What the second handler does after a failed attempt at its provider k:
\* withRetry's next attempt, else the next provider, else the 502.
OtherCaught(o) ==
  IF o.i + 1 < Tries(route, policy, Chain(route)[o.k])
  THEN [o EXCEPT !.i = @ + 1, !.pc = "attempt"]
  ELSE IF o.k < Len(Chain(route))
  THEN [o EXCEPT !.k = @ + 1, !.i = 0, !.pc = "attempt"]
  ELSE [o EXCEPT !.pc = "done", !.status = 502]

\* The second handler invokes the attempt function of its current provider.
OtherInvoke ==
  /\ other.pc = "attempt"
  /\ LET p == Chain(route)[other.k]
         o == [other EXCEPT !.tried = Append(@, p)]
     IN other' = IF ~HasKey(route, env.keys, p) \/ ~MakesCall(route, p)
                 THEN OtherCaught(o)
                 ELSE [o EXCEPT !.pc = "await"]
  /\ UNCHANGED <<route, req, env, policy, goodAt, pc, k, i, inflight, resp,
                 lastErr, errs, res, sent, hdr, invoked, ncalls, slept, thrown,
                 safeBody, payload, got, open>>

\* The upstream call of the second handler ends: well at the attempt its
\* plan names, and then the handler answers 200; otherwise the attempt failed.
OtherAnswer ==
  /\ other.pc = "await"
  /\ LET p == Chain(route)[other.k]
     IN other' = IF other.i = other.good[p]
                 THEN [other EXCEPT !.pc = "done", !.status = 200, !.won = p]
                 ELSE OtherCaught(other)
  /\ UNCHANGED <<route, req, env, policy, goodAt, pc, k, i, inflight, resp,
                 lastErr, errs, res, sent, hdr, invoked, ncalls, slept, thrown,
                 safeBody, payload, got, open>>

Next ==
  \/ Arrive
  \/ Invoke
  \/ Answer
  \/ TimeOut
  \/ Wake
  \/ ProxyAnswer
  \/ ProxyNetworkError
  \/ OtherInvoke
  \/ OtherAnswer

(* ------------------------------------------------------------------ *)
(* Initial states                                                      *)
(* ------------------------------------------------------------------ *)

\* The characters of a string.
Chars(str) ==
  CASE str = "" -> <<>>
    [] str = "ab" -> <<"a", "b">>
    [] str = "abc" -> <<"a", "b", "c">>
    [] str = "abcd" -> <<"a", "b", "c", "d">>
    [] str = "c" -> <<"c">>
    [] str = "d" -> <<"d">>

\* POST bodies of image requests: a prompt with and without size and model,
\* an empty prompt, no prompt, a prompt that is a number, no body at all.
ImageRequests ==
  { [NoReq EXCEPT !.prompt = "a red fox", !.promptType = "string"],
    [NoReq EXCEPT !.prompt = "a red fox", !.promptType = "string",
                  !.size = "512x512", !.model = "grok-2-image-latest"],
    [NoReq EXCEPT !.prompt = "", !.promptType = "string", !.size = "512x512"],
    [NoReq EXCEPT !.size = "512x512"],
    [NoReq EXCEPT !.prompt = "42", !.promptType = "number"],
    [NoReq EXCEPT !.bodyType = "undefined"] }

\* POST bodies of chat requests: a conversation with a model name and an
\* output-token limit, one with a content that is not a string, a null
\* entry and an entry without role and content, messages that are not a
\* sequence, a body that is not an object, no messages, no body at all.
ChatRequests ==
  { [NoReq EXCEPT !.model = "grok-4-1-fast-reasoning",
                  !.messagesType = "array",
                  !.messages = << Msg("system", Chars("ab")),
                                  Msg("user", Chars("abcd")),
                                  Msg("assistant", Chars("c")) >>,
                  !.maxTokensType = "number", !.max_tokens = 500],
    [NoReq EXCEPT !.messagesType = "array",
                  !.messages = << Msg("user", Chars("abc")),
                                  [Msg(U, <<>>) EXCEPT !.contentType = "number"],
                                  [Msg(U, <<>>) EXCEPT !.type = "null",
                                                       !.contentType = "undefined"],
                                  [Msg(U, <<>>) EXCEPT !.contentType = "undefined"],
                                  Msg("user", Chars("d")) >>],
    [NoReq EXCEPT !.messagesType = "string"],
    [NoReq EXCEPT !.bodyType = "string"],
    [NoReq EXCEPT !.model = "grok-4-1-fast-reasoning"],
    [NoReq EXCEPT !.bodyType = "undefined"] }

\* The requests a route is exercised with.
Requests(rt) ==
  { [NoReq EXCEPT !.method = m] : m \in Methods \ {"POST"} }
  \cup (IF rt \in ImageRoutes THEN ImageRequests ELSE ChatRequests)

\* process.env without the credentials: nothing set, and every setting the
\* chat handlers read set.
EnvDefault ==
  [timeout |-> "unset", maxMessages |-> "unset", maxChars |-> "unset",
   maxTotal |-> "unset", maxOut |-> "unset", geminiModel |-> "unset",
   openaiModel |-> "unset"]

EnvTuned ==
  [timeout |-> "1500", maxMessages |-> "2", maxChars |-> "3",
   maxTotal |-> "5", maxOut |-> "400", geminiModel |-> "gemini-1.5-pro",
   openaiModel |-> "gpt-4o"]

\* The settings a route is exercised with.
EnvSettings(rt) == IF rt \in ChatRoutes THEN {EnvDefault, EnvTuned} ELSE {EnvDefault}

\* process.env: the settings and the set of credentials that are set.
WithKeys(settings, keys) ==
  [keys |-> keys, timeout |-> settings.timeout,
   maxMessages |-> settings.maxMessages, maxChars |-> settings.maxChars,
   maxTotal |-> settings.maxTotal, maxOut |-> settings.maxOut,
   geminiModel |-> settings.geminiModel, openaiModel |-> settings.openaiModel]

\* The state of a handler when the request arrives.
InitState ==
  /\ pc = "start"
  /\ k = 1
  /\ i = 0
  /\ inflight = NoCall
  /\ resp = NoResp
  /\ lastErr = NoErr
  /\ errs = [p \in ProviderNames |-> NoErr]
  /\ res = NoRes
  /\ sent = 0
  /\ hdr = U
  /\ invoked = [p \in ProviderNames |-> 0]
  /\ ncalls = [p \in ProviderNames |-> 0]
  /\ slept = [p \in ProviderNames |-> <<>>]
  /\ thrown = [p \in ProviderNames |-> NoErr]
  /\ safeBody = NoSafeBody
  /\ payload = [p \in ProviderNames |-> NoPayload]
  /\ got = [status |-> 0, parts |-> <<>>]
  /\ open = 0

\* The parts of the initial state that do not depend on the policy.
InitCommon ==
  /\ route \in Routes
  /\ req \in Requests(route)
  /\ \E st \in EnvSettings(route), keys \in SUBSET EnvKeyNames :
       env = WithKeys(st, keys)
  /\ InitState

\* The providers of the route whose attempt function reaches its upstream
\* call: the credential is set and the step is not a stub.
Callers(rt, keys) ==
  {p \in ProviderNames :
     /\ \E j \in 1..Len(Chain(rt)) : Chain(rt)[j] = p
     /\ rt # "proxy"
     /\ HasKey(rt, keys, p)
     /\ MakesCall(rt, p)}

\* The plans of the environment: the upstream of provider p answers well
\* first at attempt plan[p]; a value equal to the budget means never within
\* it. The plan of a provider that is never called is fixed to 0.
Plans ==
  { [p \in ProviderNames |->
       IF p \in Callers(route, env.keys) THEN plan[p] ELSE 0] :
    plan \in { f \in [Callers(route, env.keys) -> 0..MaxTries] :
                 \A p \in Callers(route, env.keys) :
                   f[p] <= Tries(route, policy, p) } }

\* A second request that passed validation and enters the chain with the
\* plan g of its own upstream answers.
OtherEntering(g) == [NoOther EXCEPT !.pc = "attempt", !.good = g]

\* The second request at the start: one is under way, with any plan of its
\* own, while the handler answers a preflight of a fallback route; elsewhere
\* the first request is handled alone.
Others ==
  IF route \in FallbackRoutes /\ req.method = "OPTIONS"
  THEN { OtherEntering(g) : g \in Plans }
  ELSE { NoOther }

\* The environment's plan of the request followed, and the second request.
InitPlan ==
  /\ goodAt \in Plans
  /\ other \in Others

Init ==
  /\ InitCommon
  /\ policy = CallSitePolicy
  /\ InitPlan

Spec == Init /\ [][Next]_vars

\* The handler under the scheduling of the runtime: a handler that can run
\* does run, a timer set by sleep fires, and every upstream call returns or
\* times out.
Fairness ==
  /\ WF_vars(Arrive)
  /\ WF_vars(Invoke)
  /\ WF_vars(Wake)
  /\ WF_vars(Answer \/ TimeOut)
  /\ WF_vars(ProxyAnswer \/ ProxyNetworkError)


\* Delays withRetry is exercised with in the retry harness.
Delays == {600, 700}

\* The same options for every provider.
UniformPolicy(t, d) == [p \in ProviderNames |-> [tries |-> t, delayMs |-> d]]

\* Credential sets of the retry harness: all set, OpenAI's missing, none set.
RetryKeySets == {EnvKeyNames, {"XAI_API_KEY", "GEMINI_API_KEY"}, {}}

\* As Init, and the image chain's withRetry also with every budget up to
\* MaxTries and each delay of Delays.
InitRetry ==
  /\ InitCommon
  /\ policy \in {CallSitePolicy} \cup
                {UniformPolicy(t, d) : t \in 1..MaxTries, d \in Delays}
  /\ policy # CallSitePolicy =>
       /\ route \in ImageRoutes
       /\ env.keys \in RetryKeySets
       /\ req = [NoReq EXCEPT !.prompt = "a red fox", !.promptType = "string"]
  /\ InitPlan

SpecRetry == InitRetry /\ [][Next]_vars

\* As Init, with the credential sets of the retry harness.
InitLive ==
  /\ InitCommon
  /\ env.keys \in RetryKeySets
  /\ policy = CallSitePolicy
  /\ InitPlan

SpecLive == InitLive /\ [][Next]_vars /\ Fairness

\* The characters the contents of the sanitizer harness are made of.
Letters == <<"a", "b", "c", "d", "e", "f">>

\* Contents of the sanitizer harness: every end of the string of the first
\* MaxContentLen letters (the empty one too), and its beginnings "a", "ab".
HarnessContents ==
  {SubSeq(Letters, a, MaxContentLen) : a \in 1..(MaxContentLen + 1)}
  \cup {SubSeq(Letters, 1, b) : b \in 1..2}

\* Messages of the sanitizer harness: a user message of each content, a
\* message whose content is a number, and an assistant message that also
\* carries a name.
HarnessMsgs ==
  {Msg("user", c) : c \in HarnessContents}
  \cup {[Msg(U, <<>>) EXCEPT !.contentType = "number"]}
  \cup {[Msg("assistant", <<"a">>) EXCEPT !.name = "narrator"]}

\* Every sequence of at most MaxMsgs of them.
HarnessMessageLists == UNION {[1..n -> HarnessMsgs] : n \in 0..MaxMsgs}

\* Cost guards of the sanitizer harness: the defaults, limits that bite on
\* the message count, and a total cap below the per-message cap.
HarnessSettings ==
  { EnvDefault,
    [EnvDefault EXCEPT !.maxMessages = "2", !.maxChars = "3", !.maxTotal = "5"],
    [EnvDefault EXCEPT !.maxMessages = "3", !.maxChars = "3", !.maxTotal = "2"] }

\* Values of body.max_tokens in the sanitizer harness: numbers below, at
\* and above the caps, zero and a negative one, a string, Infinity, none.
HarnessMaxTokens ==
  { [type |-> "number", value |-> v] :
      v \in {-1, 0, 1, 399, 400, 401, 500, 899, 900, 901, 2000} }
  \cup { [type |-> t, value |-> 0] : t \in {"string", "Infinity", "undefined"} }

\* Cost guards the output-token limit is exercised with: the default cap
\* and a lower one, each with a total cap that fits and one that drops.
HarnessTokenSettings ==
  { [EnvDefault EXCEPT !.maxOut = o, !.maxTotal = t] :
      o \in {"unset", "400"}, t \in {"unset", "2"} }

\* As Init, and the chat handler also with every message sequence of the
\* harness under each of its cost guards, and with every max_tokens of the
\* harness on a short conversation.
InitSanitize ==
  /\ \/ InitCommon
     \/ /\ route = "chat"
        /\ \E ms \in HarnessMessageLists :
             req = [NoReq EXCEPT !.messagesType = "array", !.messages = ms]
        /\ \E st \in HarnessSettings : env = WithKeys(st, {})
        /\ InitState
     \/ /\ route = "chat"
        /\ \E mt \in HarnessMaxTokens :
             req = [NoReq EXCEPT !.messagesType = "array",
                                 !.messages = << Msg("user", <<"a", "b">>),
                                                 Msg("assistant", <<"c", "d">>) >>,
                                 !.maxTokensType = mt.type,
                                 !.max_tokens = mt.value]
        /\ \E st \in HarnessTokenSettings : env = WithKeys(st, {})
        /\ InitState
  /\ policy = CallSitePolicy
  /\ InitPlan

SpecSanitize == InitSanitize /\ [][Next]_vars

\* Messages of the translation harness: two system messages, an assistant
\* and a tool message, a user message with an empty content, a null entry,
\* a content that is a number.
GeminiHarnessMsgs ==
  { Msg("system", <<"a">>), Msg("system", <<"b">>),
    Msg("assistant", <<"b">>), Msg("tool", <<"c">>), Msg("user", <<>>),
    [Msg(U, <<>>) EXCEPT !.type = "null", !.contentType = "undefined"],
    [Msg("user", <<>>) EXCEPT !.contentType = "number"] }

\* Every sequence of at most MaxMsgs of them.
GeminiHarnessLists == UNION {[1..n -> GeminiHarnessMsgs] : n \in 0..MaxMsgs}

\* The prompt field of the bodies of the translation harness: none, one to
\* trim, a blank one, a number.
GeminiHarnessPrompts ==
  { [type |-> "undefined", value |-> U],
    [type |-> "string", value |-> " tell me more "],
    [type |-> "string", value |-> "  "],
    [type |-> "number", value |-> "42"] }

\* As Init, and the chat handlers also with every message sequence of the
\* translation harness, those of at most one message with each of its
\* prompts, Gemini's credential being the only one set.
InitGemini ==
  /\ \/ InitCommon
     \/ /\ route \in ChatRoutes
        /\ \E ms \in GeminiHarnessLists, pr \in GeminiHarnessPrompts :
             /\ Len(ms) > 1 => pr.type = "undefined"
             /\ req = [NoReq EXCEPT !.messagesType = "array", !.messages = ms,
                                    !.promptType = pr.type, !.prompt = pr.value]
        /\ env = WithKeys(EnvDefault, {"GEMINI_API_KEY"})
        /\ InitState
  /\ policy = CallSitePolicy
  /\ InitPlan

SpecGemini == InitGemini /\ [][Next]_vars

\* The requests of the two-request harness: one valid request per route.
PairRequests ==
  [image1 |-> [NoReq EXCEPT !.prompt = "a red fox", !.promptType = "string"],
   chat |-> [NoReq EXCEPT !.messagesType = "array",
                          !.messages = << Msg("user", Chars("abc")) >>]]

\* Credential sets of the two-request harness: all set, xAI's missing.
PairKeySets == {EnvKeyNames, {"OPENAI_API_KEY", "GEMINI_API_KEY"}}

\* The plans of the second request in the two-request harness: each of its
\* providers answers it well at once or never within the budget.
PairPlans ==
  { g \in Plans :
      \A p \in Callers(route, env.keys) : g[p] \in {0, Tries(route, policy, p)} }

\* Two valid requests are handled at the same time by the handler of an image
\* chain or of the chat chain, each with a plan of upstream answers of its
\* own; the steps of the two handlers interleave in every order. The plain
\* proxy, which has no chain, handles its request alone.
InitPair ==
  /\ policy = CallSitePolicy
  /\ \/ /\ route = "proxy"
        /\ req \in Requests(route)
        /\ env = WithKeys(EnvDefault, EnvKeyNames)
        /\ InitState
        /\ other = NoOther
     \/ /\ route \in DOMAIN PairRequests
        /\ req = PairRequests[route]
        /\ \E keys \in PairKeySets : env = WithKeys(EnvDefault, keys)
        /\ InitState
        /\ other \in { OtherEntering(g) : g \in PairPlans }
  /\ goodAt \in Plans

SpecPair == InitPair /\ [][Next]_vars

(* ------------------------------------------------------------------ *)
(* Vocabulary of the claims                                            *)
(* ------------------------------------------------------------------ *)

\* The configured order of the chains, as the specification states it.
ClaimOrder ==
  IF route \in ImageRoutes THEN <<"grok", "openai", "gemini">>
  ELSE <<"xai", "gemini", "openai">>

\* The request passed validation, so the fallback chain is entered.
Entered ==
  /\ route \in ChainRoutes
  /\ req.method = "POST"
  /\ route \in ImageRoutes => (req.promptType = "string" /\ req.prompt # "")

\* The credential of provider p is present in the environment.
CredentialSet(p) ==
  IF route = "image2" /\ p = "grok" THEN "GROK_API_KEY" \in env.keys
  ELSE IF p \in {"grok", "xai"} THEN env.keys \cap {"GROK_API_KEY", "XAI_API_KEY"} # {}
  ELSE IF p = "openai" THEN "OPENAI_API_KEY" \in env.keys
  ELSE "GEMINI_API_KEY" \in env.keys

Budget(p) == Tries(route, policy, p)

\* Provider p is configured and its call succeeds within its attempt budget.
Healthy(p) == CredentialSet(p) /\ MakesCall(route, p) /\ goodAt[p] < Budget(p)

\* The provider named by the response sent: the provider field of an image
\* result, the x-storybound-provider header of a chat answer.
Responder == IF route = "chat" THEN hdr ELSE res.body.provider

SomeHealthy == \E j \in 1..3 : Healthy(ClaimOrder[j])

FirstHealthy ==
  CHOOSE j \in 1..3 : Healthy(ClaimOrder[j]) /\ \A h \in 1..(j - 1) : ~Healthy(ClaimOrder[h])

\* The detail the handler of the route derives from an error.
Detail(e) == IF route = "chat" THEN errMsgChat(e) ELSE errMsgImage(e)

(* ------------------------------------------------------------------ *)
(* Claims                                                              *)
(* ------------------------------------------------------------------ *)

\* C1: when a valid request has at least one configured, healthy provider,
\* the handler answers 200 and the result comes from the first healthy
\* provider in the configured order, never from a later one.
C1_FirstHealthyProviderAnswers ==
  (Entered /\ pc = "done" /\ SomeHealthy) =>
     /\ res.status = 200
     /\ Responder = ClaimOrder[FirstHealthy]

C1_Witness ==
  /\ Entered /\ pc = "done"
  /\ ~Healthy(ClaimOrder[1]) /\ CredentialSet(ClaimOrder[1])
  /\ ncalls[ClaimOrder[1]] > 0
  /\ Healthy(ClaimOrder[2]) /\ Healthy(ClaimOrder[3])
  /\ res.status = 200 /\ Responder = ClaimOrder[2]

\* C2: once provider j has answered successfully, no attempt function and no
\* upstream call of a provider after j has been or is ever invoked, no
\* failure of such a provider is recorded, and the handler has ended.
C2_SuccessShortCircuits ==
  \A j \in 1..3 :
    (Entered /\ sent > 0 /\ res.status = 200 /\ Responder = ClaimOrder[j]) =>
       /\ pc = "done"
       /\ ~inflight.active
       /\ \A h \in (j + 1)..3 :
            /\ invoked[ClaimOrder[h]] = 0
            /\ ncalls[ClaimOrder[h]] = 0
            /\ errs[ClaimOrder[h]] = NoErr
            /\ thrown[ClaimOrder[h]] = NoErr

C2_Witness ==
  /\ Entered /\ pc = "done" /\ res.status = 200
  /\ Responder = ClaimOrder[1]
  /\ invoked[ClaimOrder[1]] = 2
  /\ Healthy(ClaimOrder[2]) /\ Healthy(ClaimOrder[3])
  /\ invoked[ClaimOrder[2]] = 0 /\ invoked[ClaimOrder[3]] = 0

\* C3: the 502 answer of a chain carries a detail map with exactly the three
\* provider names as keys, and each value is the message derived from the
\* error of that provider's last failed attempt.
C3_AggregatedFailureDetails ==
  (route \in ChainRoutes /\ res.status = 502) =>
     /\ DOMAIN res.body.details = {ClaimOrder[1], ClaimOrder[2], ClaimOrder[3]}
     /\ Cardinality(DOMAIN res.body.details) = 3
     /\ \A p \in DOMAIN res.body.details :
          /\ thrown[p].prov = p
          /\ thrown[p].att = Budget(p) - 1
          /\ res.body.details[p] = Detail(thrown[p])
          /\ ~thrown[p].hasResp => res.body.details[p] = thrown[p].message

C3_Witness ==
  /\ route = "image1" /\ res.status = 502
  /\ ncalls["grok"] = 2 /\ ncalls["openai"] = 2 /\ ncalls["gemini"] = 1
  /\ res.body.details["grok"] = <<"xAI ", "429", ": ", "rate limited">>
  /\ res.body.details["openai"] = <<"OpenAI returned no image payload (no b64_json)">>
  /\ res.body.details["gemini"] = <<"Bad Gateway">>

\* C4: a chain handler sends exactly one response; it is the 502 envelope
\* exactly when every provider failed; a failure followed by a later
\* provider's success is answered 200 with no error or details in the body.
C4_502IffAllFailed ==
  route \in ChainRoutes =>
     /\ sent <= 1
     /\ (pc = "done") <=> (sent = 1)
     /\ res.status = 502 => (Entered /\ pc = "done")
     /\ (Entered /\ pc = "done") => ((res.status = 502) <=> ~SomeHealthy)
     /\ (Entered /\ pc = "done") => ((res.status = 200) <=> SomeHealthy)
     /\ res.status = 502 =>
          /\ res.body.error \in {"All providers failed", "All image providers failed"}
          /\ "details" \in res.body.keys
     /\ (Entered /\ res.status = 200) =>
          /\ res.body.keys \cap {"error", "details"} = {}
          /\ res.body.error = U

C4_Witness ==
  /\ Entered /\ pc = "done" /\ sent = 1 /\ res.status = 200
  /\ Responder = ClaimOrder[3]
  /\ errs[ClaimOrder[1]] # NoErr /\ errs[ClaimOrder[2]] # NoErr
  /\ ncalls[ClaimOrder[1]] > 0 /\ ncalls[ClaimOrder[2]] > 0

\* C5: a provider whose credential is absent is never called upstream; it
\* fails with its "not set" message, the chain goes on to the next provider,
\* and the 502 detail map holds that message for it.
C5_MissingCredentialSkipsCall ==
  \A j \in 1..3 :
    LET p == ClaimOrder[j] IN
    (route \in ChainRoutes /\ ~CredentialSet(p)) =>
       /\ ncalls[p] = 0
       /\ ~(inflight.active /\ inflight.prov = p)
       /\ thrown[p] # NoErr => thrown[p].message = KeyNotSetMsg(route, p)
       /\ (k > j \/ res.status = 502) => errs[p].message = KeyNotSetMsg(route, p)
       /\ (errs[p] # NoErr /\ j < 3) => k > j
       /\ res.status = 502 => res.body.details[p] = KeyNotSetMsg(route, p)

C5_Witness ==
  /\ route \in ChainRoutes /\ res.status = 502
  /\ CredentialSet(ClaimOrder[1]) /\ ncalls[ClaimOrder[1]] > 0
  /\ ~CredentialSet(ClaimOrder[2]) /\ invoked[ClaimOrder[2]] > 0
  /\ CredentialSet(ClaimOrder[3])
  /\ res.body.details[ClaimOrder[2]] = KeyNotSetMsg(route, ClaimOrder[2])

\* C6: withRetry never invokes the attempt function more than tries times,
\* and when it raises (every attempt failed) it has invoked it exactly tries
\* times, whatever the failures were.
C6_ExactlyTriesAttempts ==
  \A p \in {"grok", "openai", "gemini"} :
    route \in ImageRoutes =>
       /\ invoked[p] <= policy[p].tries
       /\ errs[p] # NoErr => invoked[p] = policy[p].tries

C6_Witness ==
  /\ route = "image1" /\ res.status = 502
  /\ policy["grok"].tries = 3 /\ invoked["grok"] = 3
  /\ invoked["openai"] = 3 /\ invoked["gemini"] = 3
  /\ errs["grok"].message = <<"timeout of ", "60000", "ms exceeded">>
  /\ errs["openai"].message = <<"OpenAI ", "404", ": ", "JSON", "\"{code:404}\"">>
  /\ errs["gemini"].message = <<"Gemini returned no image payload">>

\* The number of failed attempts of provider p so far.
FailedAttempts(p) ==
  IF (pc = "await" /\ Cur = p) \/ (res.status = 200 /\ Responder = p)
  THEN invoked[p] - 1
  ELSE invoked[p]

\* C7: withRetry sleeps only after a failed attempt that is not the last of
\* the budget, and the delay after the n-th failed attempt is delayMs * n:
\* no delay before the first attempt, none after the final failure.
C7_LinearBackoff ==
  \A p \in {"grok", "openai", "gemini"} :
    route \in ImageRoutes =>
       /\ \A n \in 1..Len(slept[p]) : slept[p][n] = policy[p].delayMs * n
       /\ Len(slept[p]) =
            IF FailedAttempts(p) < policy[p].tries - 1
            THEN FailedAttempts(p) ELSE policy[p].tries - 1

C7_Witness ==
  /\ route \in ImageRoutes
  /\ policy["grok"].tries = 3
  /\ errs["grok"] # NoErr
  /\ slept["grok"] = <<700, 1400>>
  /\ pc = "sleep" /\ Cur = "openai" /\ slept["openai"] = <<700>>

\* C8: when every attempt failed, the error withRetry raises is the error
\* object the last attempt threw, unchanged, and the provider's detail in the
\* 502 answer is derived from it.
C8_LastErrorRaisedUnchanged ==
  \A p \in {"grok", "openai", "gemini"} :
    (route \in ImageRoutes /\ errs[p] # NoErr) =>
       /\ errs[p] = thrown[p]
       /\ errs[p].prov = p
       /\ errs[p].att = policy[p].tries - 1
       /\ errs[p].name \in {"Error", "AxiosError"}
       /\ res.status = 502 => res.body.details[p] = errMsgImage(thrown[p])

C8_Witness ==
  /\ route = "image1" /\ res.status = 502
  /\ policy["openai"].tries = 3
  /\ errs["openai"].att = 2 /\ errs["openai"] = thrown["openai"]
  /\ errs["gemini"].att = 2 /\ errs["gemini"].name = "AxiosError"
  /\ errs["gemini"].hasResp

\* C9: a chain handler answers 200 only from an upstream answer whose status
\* is in [200, 300): a non-2xx answer is never passed on as a success.
C9_Non2xxNeverSuccess ==
  (Entered /\ res.status = 200) =>
     /\ resp.status >= 200
     /\ resp.status < 300

C9_Witness ==
  /\ Entered /\ res.status = 200
  /\ Responder = "openai"
  /\ thrown["grok"].message = <<"xAI ", "500", ": ", "Unknown error">>
  /\ resp.status = 200

\* C10: every upstream call in flight carries a finite, positive timeout.
C10_EveryCallHasTimeout ==
  inflight.active => inflight.timeout > 0

\* The request carries a prompt that is a non-empty string.
ValidPrompt ==
  req.bodyType = "object" /\ req.promptType = "string" /\ req.prompt # ""

HasMessages == req.bodyType = "object" /\ req.messagesType = "array"

\* C12: a chat request without a messages sequence is rejected before any
\* provider is attempted: no upstream call is made for it.
C12_NoMessagesFailsFast ==
  (route = "chat" /\ req.method = "POST" /\ ~HasMessages) =>
     \A p \in ProviderNames : ncalls[p] = 0 /\ ~payload[p].made

\* C13: the payload of a call to Grok images never has a size field, and
\* the payload of a call to OpenAI images carries the requested size (the
\* default size when the request names none).
C13_SizeNeverSentToGrok ==
  route \in ImageRoutes =>
     /\ payload["grok"].made =>
          ("size" \notin payload["grok"].keys /\ payload["grok"].size = U)
     /\ payload["openai"].made =>
          /\ "size" \in payload["openai"].keys
          /\ payload["openai"].size =
               IF req.size = U THEN "1024x1024" ELSE req.size

\* The model configured for a fallback provider of the chat chains.
ConfiguredModel(p) ==
  IF p = "gemini"
  THEN IF env.geminiModel = "unset" THEN "gemini-2.0-flash" ELSE env.geminiModel
  ELSE IF env.openaiModel = "unset" THEN "gpt-4o-mini" ELSE env.openaiModel

\* C14: the model named in a call to a fallback provider of a chat chain is
\* that provider's configured or default model, whatever model the request
\* names.
C14_RequestModelNeverLeaks ==
  \A p \in {"gemini", "openai"} :
    (route \in ChatRoutes /\ payload[p].made) =>
       payload[p].model = ConfiguredModel(p)

\* typeof of the text (choices[0].message.content) of a chat answer.
ChatTextType(b) ==
  IF "raw" \in b.keys
  THEN IF b.raw.type = "object" /\ b.raw.content # U THEN "string" ELSE "undefined"
  ELSE "string"

\* C15: every 200 answer of the chat chain carries a text that is a
\* string, whichever provider produced it.
C15_ChatTextAlwaysString ==
  (route = "chat" /\ req.method = "POST" /\ res.status = 200) =>
     ChatTextType(res.body) = "string"

\* The answer carries an image URL.
CarriesUrl(b) ==
  b.url # U \/ (Len(b.image) = 1 /\ StartsWithHttp(b.image[1]))

\* The answer carries base64 image data, as b64_json or as a data URI.
CarriesBase64(b) ==
  \/ b.b64_json # U
  \/ (Len(b.image) = 1 /\ IsDataUri(b.image[1]))
  \/ (Len(b.image) > 1 /\ b.image[1] \in {"data:", "data:image/png;base64,"})

\* The upstream answer behind the success holds both an explicit image URL
\* and inline base64 data.
AnswerHasBoth ==
  Truthy(resp.data.url) /\ (Truthy(resp.data.b64_json) \/ Truthy(resp.data.b64))

\* C16: every successful image result carries exactly one of an image URL
\* and base64 image data, and when the upstream answer holds both, the URL
\* is the one kept.
C16_ExactlyOneUrlFirst ==
  (route \in ImageRoutes /\ Entered /\ res.status = 200) =>
     /\ CarriesUrl(res.body) \/ CarriesBase64(res.body)
     /\ ~(CarriesUrl(res.body) /\ CarriesBase64(res.body))
     /\ AnswerHasBoth => (CarriesUrl(res.body) /\ res.body.url = resp.data.url)

\* The top-level fields of the result the Grok step of the route returns.
GrokShape ==
  IF route = "image2" THEN {"image", "promptUsed", "provider"}
  ELSE {"provider", "promptUsed", "data"}

\* C17: a successful image answer has the same top-level fields whichever
\* provider of the chain produced it.
C17_SameShapeFromEveryProvider ==
  (route \in ImageRoutes /\ Entered /\ res.status = 200) =>
     res.body.keys = GrokShape

\* The messages of the request as the sanitizer reads them.
InMsgs == IF HasMessages THEN req.messages ELSE <<>>

\* The chat handler has sanitized the request.
Sanitized == route = "chat" /\ req.method = "POST" /\ pc # "start"

\* The limits in force.
MaxMessagesLimit == IF env.maxMessages = "unset" THEN 24 ELSE NumberOf(env.maxMessages)
MaxCharsLimit == IF env.maxChars = "unset" THEN 3200 ELSE NumberOf(env.maxChars)
MaxTotalLimit == IF env.maxTotal = "unset" THEN 18000 ELSE NumberOf(env.maxTotal)

Smaller(a, b) == IF a <= b THEN a ELSE b

\* The string content of a message of the request ("" when it has none).
StringContent(m) ==
  IF m.type = "object" /\ m.contentType = "string" THEN m.content ELSE <<>>

\* a is the end of b.
IsSuffix(a, b) ==
  Len(a) <= Len(b) /\ a = SubSeq(b, Len(b) - Len(a) + 1, Len(b))

\* The sanitized message out stands for the message in of the request: the
\* same role (user when it has none) and the end of its content.
SameMessage(out, in) ==
  /\ out.role = IF in.type = "object" /\ in.role \notin {U, ""} THEN in.role ELSE "user"
  /\ IsSuffix(out.content, StringContent(in))

RECURSIVE ClampedTotalFrom(_)
\* The characters of the messages from position h on, each counted up to
\* the per-message limit.
ClampedTotalFrom(h) ==
  IF h > Len(InMsgs) THEN 0
  ELSE Smaller(Len(StringContent(InMsgs[h])), MaxCharsLimit) + ClampedTotalFrom(h + 1)

LastChars(str, n) == [j \in 1..n |-> str[Len(str) - n + j]]

\* C19: the sanitized content of a message whose content is longer than
\* maxCharsPerMessage is exactly the last maxCharsPerMessage characters of
\* it; a content within the limit is unchanged.
C19_TailPreserved ==
  Sanitized =>
     LET n == Len(InMsgs)
         kept == Len(safeBody.messages)
     IN
     \A j \in 1..kept :
       LET m == InMsgs[n - kept + j] IN
       (m.type = "object" /\ m.contentType = "string") =>
          safeBody.messages[j].content =
            IF Len(m.content) > MaxCharsLimit
            THEN LastChars(m.content, MaxCharsLimit)
            ELSE m.content

C19_Witness ==
  /\ Sanitized /\ MaxCharsLimit = 3
  /\ Len(InMsgs) = 2 /\ Len(safeBody.messages) = 2
  /\ InMsgs[1].content = <<"a", "b", "c", "d">>
  /\ safeBody.messages[1].content = <<"b", "c", "d">>
  /\ InMsgs[2].content = <<"a", "b">>
  /\ safeBody.messages[2].content = <<"a", "b">>

RECURSIVE CharCount(_)
\* The characters of a sequence of sanitized messages.
CharCount(ms) == IF ms = <<>> THEN 0 ELSE Len(ms[1].content) + CharCount(Tail(ms))

\* The last n elements of a sequence.
LastOf(ms, n) == SubSeq(ms, Len(ms) - n + 1, Len(ms))

\* The messages after slicing and clamping, before the total cap.
ClampedList == ClampAll(SliceLast(InMsgs, MAX_MESSAGES(env)), MAX_CHARS_PER_MESSAGE(env))

\* C20: when the clamped messages exceed the total cap, the oldest are
\* dropped one at a time until the total is within the cap or one message
\* is left: the result is the end of the clamped list, it is the whole list
\* when that fits, it drops no more than needed, it is not empty unless the
\* clamped list is, and whenever it has more than one message it fits.
C20_TotalCapDropsOldest ==
  Sanitized =>
     LET out == safeBody.messages
         c == ClampedList
     IN
     /\ Len(out) <= Len(c)
     /\ out = LastOf(c, Len(out))
     /\ CharCount(c) <= MaxTotalLimit => out = c
     /\ c # <<>> => out # <<>>
     /\ Len(out) > 1 => CharCount(out) <= MaxTotalLimit
     /\ Len(out) < Len(c) => CharCount(LastOf(c, Len(out) + 1)) > MaxTotalLimit

C20_Witness ==
  /\ Sanitized /\ MaxTotalLimit = 5
  /\ Len(ClampedList) = 2 /\ CharCount(ClampedList) = 6
  /\ Len(safeBody.messages) = 1
  /\ safeBody.messages[1].content = <<"b", "c", "d">>
  /\ CharCount(safeBody.messages) = 3

\* The hard cap on output tokens in force.
HardCap == IF env.maxOut = "unset" THEN 900 ELSE NumberOf(env.maxOut)

\* The request carries a finite numeric output-token limit.
RequestsFiniteLimit == req.bodyType = "object" /\ req.maxTokensType = "number"

\* C21: the sanitized output-token limit is min(requested, hardCap) when the
\* request carries a finite numeric limit and the default (the hard cap)
\* otherwise; it never exceeds the hard cap, whether or not the total cap
\* dropped messages.
C21_MaxTokensIsMinOfRequestedAndCap ==
  Sanitized =>
     /\ safeBody.max_tokens =
          IF RequestsFiniteLimit THEN Smaller(req.max_tokens, HardCap) ELSE HardCap
     /\ safeBody.max_tokens <= HardCap
     /\ "max_tokens" \in safeBody.keys

C21_Witness ==
  /\ Sanitized
  /\ RequestsFiniteLimit /\ req.max_tokens = 2000 /\ HardCap = 400
  /\ safeBody.max_tokens = 400
  /\ Len(safeBody.messages) < Len(InMsgs)

\* C22: sanitizing the sanitized request again changes nothing:
\* sanitize(sanitize(x)) = sanitize(x) for every request x.
C22_SanitizeIdempotent ==
  Sanitized => sanitizeChatBody(SafeAsRequest(req, safeBody), env) = safeBody

C22_Witness ==
  /\ Sanitized
  /\ Len(InMsgs) = 3 /\ Len(safeBody.messages) = 1
  /\ Len(InMsgs[3].content) > MaxCharsLimit
  /\ CharCount(safeBody.messages) > MaxTotalLimit
  /\ sanitizeChatBody(SafeAsRequest(req, safeBody), env) = safeBody
  /\ SafeAsRequest(req, safeBody) # req

\* The request is within all limits: its message count, the length of each
\* content and their total.
WithinLimits ==
  /\ HasMessages
  /\ Len(InMsgs) <= MaxMessagesLimit
  /\ \A j \in 1..Len(InMsgs) : Len(StringContent(InMsgs[j])) <= MaxCharsLimit
  /\ ClampedTotalFrom(1) <= MaxTotalLimit

\* Every message of the request has a role and a string content.
RolesAndStringContents ==
  \A j \in 1..Len(InMsgs) :
    /\ InMsgs[j].type = "object"
    /\ InMsgs[j].role \notin {U, ""}
    /\ InMsgs[j].contentType = "string"

\* The fields passed through are those of the request, and max_tokens.
PassthroughKept ==
  /\ safeBody.keys = BodyKeys(req) \cup {"max_tokens"}
  /\ safeBody.model = req.model

\* C23 as stated: the sanitized output of a request within all limits
\* equals the input in every field, the messages with all of their fields
\* included, except for the output-token limit.
C23_WithinLimitsUnchanged ==
  (Sanitized /\ WithinLimits) =>
     /\ safeBody.messages = InMsgs
     /\ PassthroughKept

\* C23, amended: for a request within all limits whose messages each have
\* a role and a string content, the sanitized output has the same
\* passthrough fields and the same messages in the same order, each with
\* its role and its content unchanged; a field a message carries besides
\* role and content is not kept.
C23_WithinLimitsRoleAndContentUnchanged ==
  (Sanitized /\ WithinLimits /\ RolesAndStringContents) =>
     /\ Len(safeBody.messages) = Len(InMsgs)
     /\ \A j \in 1..Len(InMsgs) :
          /\ safeBody.messages[j].role = InMsgs[j].role
          /\ safeBody.messages[j].content = InMsgs[j].content
          /\ safeBody.messages[j].name = U
     /\ PassthroughKept

C23_Witness ==
  /\ Sanitized /\ WithinLimits /\ RolesAndStringContents
  /\ MaxMessagesLimit = 2 /\ MaxCharsLimit = 3 /\ MaxTotalLimit = 5
  /\ Len(InMsgs) = 2
  /\ InMsgs[1].role = "assistant" /\ InMsgs[1].name = "narrator"
  /\ InMsgs[2].content = <<"b", "c", "d">>
  /\ safeBody.messages[1].role = "assistant" /\ safeBody.messages[1].name = U
  /\ safeBody.messages[2].content = <<"b", "c", "d">>

\* C24: sanitizing never raises, whatever the body: an absent body, one
\* that is not an object, messages absent or not a sequence, entries that
\* are null or lack role or content, a content that is not a string.  It
\* returns a request with a messages sequence of {role, content} entries
\* with string contents, possibly empty, and the handler goes on to the
\* providers with it: xAI is invoked, and called with these messages when
\* its credential is set.
C24_SanitizeNeverFails ==
  Sanitized =>
     /\ ~safeBody.threw
     /\ "messages" \in safeBody.keys
     /\ Len(safeBody.messages) <= Len(InMsgs)
     /\ \A j \in 1..Len(safeBody.messages) :
          /\ safeBody.messages[j].type = "object"
          /\ safeBody.messages[j].contentType = "string"
          /\ safeBody.messages[j].role # U
     /\ ~HasMessages => safeBody.messages = <<>>
     /\ pc = "done" => invoked["xai"] = 1 /\ sent = 1
     /\ payload["xai"].made => payload["xai"].messages = safeBody.messages
     /\ (pc = "done" /\ CredentialSet("xai")) => payload["xai"].made

C24_Witness ==
  /\ Sanitized /\ pc = "done"
  /\ Len(InMsgs) = 5
  /\ InMsgs[2].contentType = "number"
  /\ InMsgs[3].type = "null"
  /\ InMsgs[4].contentType = "undefined" /\ InMsgs[4].role = U
  /\ ~safeBody.threw
  /\ Len(safeBody.messages) = 5
  /\ safeBody.messages[3] = Msg("user", <<>>)
  /\ payload["xai"].made /\ payload["xai"].messages = safeBody.messages

\* The messages the Gemini request is built from: the sanitized ones in
\* the three-step chain, the request's in the two-step chain.
GeminiSource == IF route = "chat" THEN safeBody.messages ELSE InMsgs

\* The text of a message: its content when that is a string, else none.
MsgText(m) == IF m.type = "object" /\ m.contentType = "string" THEN m.content ELSE <<>>

\* The positions of the system messages with content, and of the other
\* messages with content.
SystemAt == {j \in 1..Len(GeminiSource) :
               MsgText(GeminiSource[j]) # <<>> /\ GeminiSource[j].role = "system"}
SpokenAt == {j \in 1..Len(GeminiSource) :
               MsgText(GeminiSource[j]) # <<>> /\ GeminiSource[j].role # "system"}

\* The n-th smallest element of a set of positions.
NthOf(S, n) == CHOOSE j \in S : Cardinality({h \in S : h <= j}) = n

RECURSIVE BlankLineJoined(_, _)
\* The texts at the positions S from position n on, a blank line between
\* two of them.
BlankLineJoined(S, n) ==
  IF n > Cardinality(S) THEN <<>>
  ELSE MsgText(GeminiSource[NthOf(S, n)])
       \o (IF n < Cardinality(S) THEN <<"\n", "\n">> ELSE <<>>)
       \o BlankLineJoined(S, n + 1)

\* The reference translation of the messages: the system instruction and
\* the contents.
ReferenceSystemOk ==
  /\ ("systemInstruction" \in payload["gemini"].keys) <=> (SystemAt # {})
  /\ payload["gemini"].system = BlankLineJoined(SystemAt, 1)

ReferenceContentsOk ==
  LET c == payload["gemini"].contents IN
  /\ Len(c) = Cardinality(SpokenAt)
  /\ \A n \in 1..Len(c) :
       LET m == GeminiSource[NthOf(SpokenAt, n)] IN
       /\ c[n].text = MsgText(m)
       /\ c[n].role = IF m.role = "assistant" THEN "model" ELSE "user"

\* The Gemini request of a chat chain has been built.
GeminiBuilt == route \in ChatRoutes /\ payload["gemini"].made

\* The body carries a prompt that is a string with more than blanks.
HasTextPrompt ==
  /\ req.bodyType = "object" /\ req.promptType = "string"
  /\ req.prompt \notin {"", "  "}

\* The prompt without the blanks before and after it.
PromptWithoutBlanksAround ==
  IF req.prompt = " tell me more " THEN "tell me more" ELSE req.prompt

\* C25 as stated: the Gemini request equals the reference translation of
\* the messages: the system instruction is the contents of the system
\* messages joined by a blank line, absent when there are none; the other
\* messages with content are the contents, in order, assistant as model
\* and every other role as user; a message without content is nowhere.
C25_GeminiRequestIsReference ==
  GeminiBuilt => ReferenceSystemOk /\ ReferenceContentsOk

\* C25, amended: as stated, except that when no message other than system
\* messages has content and the body carries a prompt that is a string
\* with more than blanks, contents is one user entry with the trimmed
\* prompt.
C25_GeminiRequestIsReferenceOrPrompt ==
  GeminiBuilt =>
     /\ ReferenceSystemOk
     /\ IF SpokenAt = {} /\ HasTextPrompt
        THEN payload["gemini"].contents =
               <<[role |-> "user", text |-> <<PromptWithoutBlanksAround>>]>>
        ELSE ReferenceContentsOk

C25_Witness ==
  /\ GeminiBuilt
  /\ Len(GeminiSource) = 3
  /\ GeminiSource[1] = Msg("system", <<"a">>)
  /\ GeminiSource[2] = Msg("assistant", <<"b">>)
  /\ GeminiSource[3] = Msg("system", <<"b">>)
  /\ payload["gemini"].system = <<"a", "\n", "\n", "b">>
  /\ payload["gemini"].contents = <<[role |-> "model", text |-> <<"b">>]>>

\* The answer sent is the translation of a Gemini answer in a chat chain.
GeminiChatAnswer ==
  /\ route \in ChatRoutes /\ req.method = "POST"
  /\ res.status = 200 /\ res.body.id = "gemini_fallback"

RECURSIVE TextsUpTo(_, _)
\* The texts of the first n parts, one after the other.
TextsUpTo(parts, n) ==
  IF n = 0 THEN <<>> ELSE TextsUpTo(parts, n - 1) \o parts[n].text

\* C26: the text of the answer made from a Gemini response is the texts of
\* all text parts of its first candidate, in order and with nothing
\* between them; it is the empty string when the response has no candidate
\* or no text part.
C26_GeminiTextIsPartsJoined ==
  GeminiChatAnswer =>
     /\ res.body.text = TextsUpTo(resp.data.parts, Len(resp.data.parts))
     /\ (\A j \in 1..Len(resp.data.parts) : resp.data.parts[j].text = <<>>)
          => res.body.text = <<>>

C26_Witness ==
  /\ GeminiChatAnswer
  /\ Len(resp.data.parts) = 3
  /\ resp.data.parts[1].text = <<"h", "i">>
  /\ resp.data.parts[3].text = <<" ", "t", "h", "e", "r", "e">>
  /\ res.body.text = <<"h", "i", " ", "t", "h", "e", "r", "e">>

\* The text of the first of Gemini's parts that has text other than blanks
\* (none: the empty text).
DescriptiveText ==
  LET at == {j \in 1..Len(got.parts) :
               \E h \in 1..Len(got.parts[j].text) : got.parts[j].text[h] # " "}
  IN
  IF at = {} THEN <<>>
  ELSE got.parts[CHOOSE j \in at : \A h \in at : j <= h].text

\* Gemini's image call was answered 2xx with descriptive text and no image.
GeminiAnsweredTextOnly ==
  /\ route = "image1" /\ pc # "await"
  /\ got.status >= 200 /\ got.status < 300
  /\ \A j \in 1..Len(got.parts) : got.parts[j].inlineData = U
  /\ DescriptiveText # <<>>

\* The first n characters of a text, all of it when it is shorter.
FirstChars(t, n) == [j \in 1..Smaller(Len(t), n) |-> t[j]]

\* C27: a 2xx answer of the Gemini image provider with descriptive text and
\* no image is a failed attempt like any other: the attempt throws, the
\* chain goes on and, Gemini being the last provider, ends in the 502
\* answer with every provider's detail; the detail of Gemini quotes the
\* first 200 characters of the provider's text, all of it when it is
\* shorter.
C27_TextOnlyAnswerIsFailureWithShortDetail ==
  GeminiAnsweredTextOnly =>
     LET quoted == FirstChars(DescriptiveText, 200) IN
     /\ Len(quoted) <= 200
     /\ thrown["gemini"].message = <<"Gemini returned text but no image: ">> \o quoted
     /\ res.status # 200
     /\ pc = "done" =>
          /\ sent = 1 /\ res.status = 502
          /\ res.body.details["gemini"] = thrown["gemini"].message

C27_Witness ==
  /\ GeminiAnsweredTextOnly /\ pc = "done"
  /\ Len(DescriptiveText) = 203
  /\ DescriptiveText[201] = "y"
  /\ Len(res.body.details["gemini"]) = 201
  /\ res.body.details["gemini"][201] = "x"
  /\ res.status = 502

\* The provider at position j of the configured order has failed for good:
\* its attempt function was invoked as often as its budget allows, its last
\* attempt threw, and its error reached the handler's catch block.
FailedForGood(j) ==
  /\ invoked[ClaimOrder[j]] = Budget(ClaimOrder[j])
  /\ thrown[ClaimOrder[j]] # NoErr
  /\ errs[ClaimOrder[j]] = thrown[ClaimOrder[j]]

\* C28: within one request the providers are tried one after the other:
\* never more than one upstream call is in flight, a call is in flight
\* only while the handler waits for it, and a provider is first invoked or
\* called only after every provider before it has failed for good.
C28_ProvidersTriedSequentially ==
  route \in FallbackRoutes =>
     /\ open <= 1
     /\ open = IF pc = "await" THEN 1 ELSE 0
     /\ \A j \in 2..3 :
          (invoked[ClaimOrder[j]] > 0 \/ ncalls[ClaimOrder[j]] > 0) =>
             \A h \in 1..(j - 1) : FailedForGood(h)

C28_Witness ==
  /\ route = "image1" /\ pc = "await" /\ open = 1
  /\ inflight.prov = "gemini" /\ ncalls["gemini"] = 1
  /\ ncalls["grok"] = 2 /\ ncalls["openai"] = 2
  /\ FailedForGood(1) /\ FailedForGood(2)

\* The second request is under way or done next to a valid first request.
TwoRequests == Entered /\ other.pc # "none"

\* Provider p is configured and, under the plan g, its call succeeds within
\* its attempt budget.
HealthyUnder(g, p) == CredentialSet(p) /\ MakesCall(route, p) /\ g[p] < Budget(p)

\* Handled alone, a request with the plan g is answered by the first provider
\* of the configured order that is healthy under g (0: by none).
AloneFirst(g) ==
  IF \E j \in 1..3 : HealthyUnder(g, ClaimOrder[j])
  THEN CHOOSE j \in 1..3 : /\ HealthyUnder(g, ClaimOrder[j])
                           /\ \A h \in 1..(j - 1) : ~HealthyUnder(g, ClaimOrder[h])
  ELSE 0

AloneStatus(g) == IF AloneFirst(g) = 0 THEN 502 ELSE 200

AloneWinner(g) == IF AloneFirst(g) = 0 THEN U ELSE ClaimOrder[AloneFirst(g)]

\* Handled alone, how often the j-th provider is attempted under the plan g:
\* its whole budget before the answering provider, up to the good attempt at
\* the answering provider, never after it.
AloneTurns(g, j) ==
  IF AloneFirst(g) = 0 \/ j < AloneFirst(g) THEN Budget(ClaimOrder[j])
  ELSE IF j = AloneFirst(g) THEN g[ClaimOrder[j]] + 1
  ELSE 0

\* Handled alone, the providers attempted under the plan g, in order.
AloneTried(g) ==
  [x \in 1..AloneTurns(g, 1) |-> ClaimOrder[1]]
    \o [x \in 1..AloneTurns(g, 2) |-> ClaimOrder[2]]
    \o [x \in 1..AloneTurns(g, 3) |-> ClaimOrder[3]]

IsPrefix(a, b) == Len(a) <= Len(b) /\ a = SubSeq(b, 1, Len(a))

\* C29: requests are independent. When two requests are handled at the same
\* time, in any interleaving of their steps, each request's provider order,
\* attempts and final answer (its status and the provider it comes from) are
\* those of the request handled alone, which depend on its own upstream
\* answers and the configuration only: neither request's outcome reorders
\* or skips providers of the other.
C29_RequestsAreIndependent ==
  TwoRequests =>
    /\ \A j \in 1..3 : invoked[ClaimOrder[j]] <= AloneTurns(goodAt, j)
    /\ \A j \in 2..3 :
         invoked[ClaimOrder[j]] > 0 =>
           invoked[ClaimOrder[j - 1]] = AloneTurns(goodAt, j - 1)
    /\ pc = "done" =>
         /\ res.status = AloneStatus(goodAt)
         /\ res.status = 200 => Responder = AloneWinner(goodAt)
         /\ \A j \in 1..3 : invoked[ClaimOrder[j]] = AloneTurns(goodAt, j)
    /\ IsPrefix(other.tried, AloneTried(other.good))
    /\ other.pc = "done" =>
         /\ other.status = AloneStatus(other.good)
         /\ other.won = AloneWinner(other.good)
         /\ other.tried = AloneTried(other.good)

\* Both requests are answered, the first by its first provider although the
\* second request, whose first provider failed, was answered by its second.
C29_Witness ==
  /\ TwoRequests /\ pc = "done" /\ other.pc = "done"
  /\ res.status = 200 /\ Responder = ClaimOrder[1]
  /\ other.status = 200 /\ other.won = ClaimOrder[2]
  /\ Len(other.tried) > 1 /\ ncalls[ClaimOrder[1]] > 0

\* The provider at position j of the chat chain was called, its call failed,
\* and the handler has left it: for the next provider or for the final 502.
ChatCallFailedAt(j) ==
  /\ route \in ChatRoutes /\ req.method = "POST"
  /\ j <= Len(Chain(route))
  /\ ncalls[Chain(route)[j]] > 0
  /\ errs[Chain(route)[j]] # NoErr
  /\ (k > j \/ (pc = "done" /\ res.status = 502))

\* C30: in the chat fallback chain each provider call is run through the
\* retry executor: a provider whose first call fails is called again, up to
\* its attempt budget (2 attempts by default), before the handler records the
\* failure and advances to the next provider.
C30_ChatCallsRetried ==
  \A j \in 1..3 :
    ChatCallFailedAt(j) => ncalls[Chain(route)[j]] = DefaultAttempts

\* C31: a provider with no credential is skipped entirely: it uses exactly one
\* failure, its attempt function is not invoked again by the retry executor,
\* and no backoff delay is slept before the handler moves on to the next
\* provider.
C31_MissingCredentialSkippedAtOnce ==
  \A j \in 1..3 :
    LET p == ClaimOrder[j] IN
    (Entered /\ ~CredentialSet(p)) =>
       /\ invoked[p] <= 1
       /\ slept[p] = <<>>
       /\ errs[p] # NoErr => invoked[p] = 1

\* Provider p of an image chain answered the request: withRetry returned the
\* result of one of its attempts and the handler sent it.
RetrySucceededFor(p) ==
  route \in ImageRoutes /\ res.status = 200 /\ res.body.provider = p

\* C32: when the attempt function succeeds on attempt j (j within the
\* budget), withRetry returns that attempt's result at once: the attempt
\* function was invoked exactly j times, a delay was slept after each of the
\* j - 1 failures and none after the success, and the failures of the same
\* provider are not reported (no catch variable, no error in the answer).
C32_SuccessOnAttemptJReturnsAtOnce ==
  \A p \in {"grok", "openai", "gemini"} :
    RetrySucceededFor(p) =>
       /\ pc = "done" /\ sent = 1 /\ ~inflight.active
       /\ invoked[p] = goodAt[p] + 1
       /\ invoked[p] = i + 1
       /\ invoked[p] <= policy[p].tries
       /\ Len(slept[p]) = invoked[p] - 1
       /\ res.body = AttemptResult(route, p, resp, i, req, env).value
       /\ errs[p] = NoErr
       /\ res.body.error = U /\ res.body.details = NoDetails
       /\ "error" \notin res.body.keys /\ "details" \notin res.body.keys

\* OpenAI answered on its third attempt, after two failures and two delays.
C32_Witness ==
  /\ RetrySucceededFor("openai")
  /\ policy["openai"].tries = 3
  /\ invoked["openai"] = 3
  /\ Len(slept["openai"]) = 2
  /\ thrown["openai"] # NoErr
  /\ errs["grok"] # NoErr /\ errs["openai"] = NoErr

\* C33: the output-token limit in the payload sent to every provider of the
\* chat chain (xAI, Gemini and OpenAI alike) equals the sanitized request's
\* limit, min(requested or default, hard cap); a request that asks for fewer
\* tokens than the cap reaches the Gemini fallback with that smaller limit.
C33_SameTokenLimitToEveryProvider ==
  \A p \in {"xai", "gemini", "openai"} :
    (route = "chat" /\ payload[p].made) =>
       payload[p].maxOut = safeBody.max_tokens

\* The messages of the request whose content is a string.
WithStringContent ==
  {j \in 1..Len(InMsgs) :
     InMsgs[j].type = "object" /\ InMsgs[j].contentType = "string"}

\* C34: a message whose content is not a string is dropped from the request,
\* neither coerced to a string nor forwarded with a substituted content: it
\* appears in no payload sent to a provider of the chat chain, so no payload
\* holds more messages than the request has messages with a string content.
C34_NonStringContentDropped ==
  \A p \in {"xai", "gemini", "openai"} :
    (route = "chat" /\ req.method = "POST" /\ payload[p].made) =>
       /\ Len(payload[p].messages) <= Cardinality(WithStringContent)
       /\ req.promptType # "string" =>
            Len(payload[p].contents) <= Cardinality(WithStringContent)

\* C35: sanitize has no side effects: the request body, its messages
\* sequence and each message object are the same after the call as before
\* it, also when the oldest messages are dropped; no step of the handler
\* changes the caller's request.
C35_SanitizeLeavesRequestUnchanged == [][req' = req]_vars

\* The sanitizer has cut the list to the last messages, clamped a content and
\* dropped the oldest of the clamped messages, and the request still holds
\* all of its messages.
C35_Witness ==
  /\ Sanitized
  /\ Len(InMsgs) = 3 /\ MaxMessagesLimit = 2
  /\ \E j \in 2..3 : InMsgs[j].contentType = "string"
                      /\ Len(InMsgs[j].content) > MaxCharsLimit
  /\ Len(ClampedList) = 2
  /\ Len(safeBody.messages) = 1

\* A POST request that passes the handler's validation.
ValidPost ==
  /\ req.method = "POST"
  /\ route \in ImageRoutes => (req.promptType = "string" /\ req.prompt # "")

\* The sum of the attempt budgets of the providers of the route.
RECURSIVE BudgetsFrom(_)
BudgetsFrom(j) ==
  IF j > Len(Chain(route)) THEN 0
  ELSE Budget(Chain(route)[j]) + BudgetsFrom(j + 1)

\* The invocations of attempt functions made for the request so far.
RECURSIVE InvokedFrom(_)
InvokedFrom(j) ==
  IF j > Len(Chain(route)) THEN 0
  ELSE invoked[Chain(route)[j]] + InvokedFrom(j + 1)

\* Every provider was attempted within its budget, every provider the
\* handler has left or is at was attempted at least once, and the total stays
\* within the sum of the budgets (5 in the image chain).
AttemptsBounded ==
  ValidPost =>
    /\ InvokedFrom(1) <= BudgetsFrom(1)
    /\ route \in ImageRoutes => InvokedFrom(1) <= 5
    /\ \A j \in 1..Len(Chain(route)) :
         /\ invoked[Chain(route)[j]] <= Budget(Chain(route)[j])
         /\ (j < k \/ res.status = 502) => invoked[Chain(route)[j]] >= 1

\* The handler has answered the request and ended.
Answered == pc = "done" /\ sent = 1 /\ res.status # 0 /\ ~inflight.active

\* C36: when every upstream call returns or times out, every valid POST
\* request eventually ends with an answer, after a number of invocations of
\* attempt functions bounded by the sum of the providers' attempt budgets
\* (at most 2 + 2 + 1 = 5 in the image chain); each provider tried
\* contributes at least one and at most its budget of attempts.
C36_ValidPostTerminatesWithinBudgets ==
  /\ []AttemptsBounded
  /\ ValidPost ~> Answered

\* The image chain is exhausted after all five attempts: two of Grok, two of
\* OpenAI, one of Gemini, and the 502 is sent.
C36_Witness ==
  /\ route = "image1" /\ ValidPost /\ Answered
  /\ res.status = 502
  /\ InvokedFrom(1) = 5 /\ BudgetsFrom(1) = 5
  /\ ncalls["grok"] = 2 /\ ncalls["openai"] = 2 /\ ncalls["gemini"] = 1

====
